---------------------------- MODULE Spec2Model ----------------------------
(***************************************************************************)
(* Guild synchronisation of swgoh/processing/sync_guilds.py: run() walks   *)
(* the Guilds sheet, asks the game data service for each guild and each    *)
(* member, and reconciles the sheets Guilds, Players, Player_Units and     *)
(* Player_Skills.  The module also holds one call of the game data client *)
(* (post_json_retry of http.py), single calls of the helper functions, and *)
(* the /syncdata handler of the bot (SyncDataRunner of bot/main_bot.py).   *)
(*                                                                         *)
(* A sheet is a record [headers, rows]: the header row and the data rows   *)
(* (a rectangular grid, as get_all_values returns it).  Cells are strings. *)
(* An optional payload field is a sequence: <<>> absent, <<v>> present.    *)
(* A Python dict that is iterated is a sequence of entries in insertion    *)
(* order; a dict that is only looked up is a function.                     *)
(***************************************************************************)
EXTENDS Integers, Sequences, FiniteSets, TLC

\* ----------------------------------------------------------------- bounds
\* Longest member list of a guild payload.
MaxMembers == 2
\* Number of runs made in succession.
MaxRuns == 2
\* Most attempts and most body variants of a post_json_retry call.
MaxAttempts == 3
MaxVariants == 3
\* Number of successive runs over one Player_Units header.
MaxHeaderRuns == 2
\* Greatest relic tier a roster entry reports.
MaxTier == 12
\* Greatest memberLevel a guild payload reports.
MaxLevel == 5
\* Longest member list of guild g1 in the runs followed to their end.
MaxLiveMembers == 1
\* Most observations of one skill in a roster.
MaxObs == 3
\* Number of /syncdata commands the bot receives.
MaxCommands == 3

\* -------------------------------------------------------------- constants
DIV_MAP == (25 :> "1") @@ (20 :> "2") @@ (15 :> "3") @@ (10 :> "4") @@ (5 :> "5")

RELIC_MAP ==
    (11 :> "R9") @@ (10 :> "R8") @@ (9 :> "R7") @@ (8 :> "R6") @@ (7 :> "R5")
    @@ (6 :> "R4") @@ (5 :> "R3") @@ (4 :> "R2") @@ (3 :> "R1") @@ (2 :> "R0")
    @@ (1 :> "G12") @@ (0 :> "<G12")

ROLE_MAP == (2 :> "Miembro") @@ (3 :> "Oficial") @@ (4 :> "Lider")

GUILDS_HEADER_SYNONYMS == ("GP" :> <<"GP", "Guild GP">>)

GUILDS_REQUIRED ==
    <<"Guild Id", "Guild Name", "Members", "Guild GP", "Last Raid Id",
      "Last Raid Score", "Last Update">>

PLAYERS_REQUIRED ==
    <<"Player Id", "Player Name", "Ally code", "Guild Name", "Role", "Level",
      "GP", "GAC League">>

PLAYER_UNITS_MIN_PREFIX == <<"Guild Name", "Player Name">>

PS_KEY_HEADERS == <<"Player Guild", "Player Name">>

\* attempts = 4 in run(): calls of process_guild per guild.
attempts == 4

NoSynonyms == [k \in {} |-> <<>>]

\* ---------------------------------------------------------------- strings
\* str.lower() on the strings of the model.
Lower(s) ==
    CASE s = "Guild Id" -> "guild id"
      [] s = "Guild Name" -> "guild name"
      [] s = "Members" -> "members"
      [] s = "Guild GP" -> "guild gp"
      [] s = "GP" -> "gp"
      [] s = "Last Raid Id" -> "last raid id"
      [] s = "Last Raid Score" -> "last raid score"
      [] s = "Last Update" -> "last update"
      [] s = "Player Id" -> "player id"
      [] s = "Player Name" -> "player name"
      [] s = "Player Guild" -> "player guild"
      [] s = "Ally code" -> "ally code"
      [] s = "Role" -> "role"
      [] s = "Level" -> "level"
      [] s = "GAC League" -> "gac league"
      [] s = "Notes" -> "notes"
      [] s = "Vader" -> "vader"
      [] s = "Falcon" -> "falcon"
      [] s = "Yoda" -> "yoda"
      [] s = "VADER" -> "vader"
      [] s = "Vader|Z" -> "vader|z"
      [] s = "Vader|O" -> "vader|o"
      [] s = "A" -> "a"
      [] s = "B" -> "b"
      [] s = "Ann" -> "ann"
      [] s = "Bob" -> "bob"
      [] s = "Cid" -> "cid"
      [] s = "Dee" -> "dee"
      [] s = "Eve" -> "eve"
      [] s = "Zed" -> "zed"
      [] OTHER -> s

\* str.strip() on the strings of the model.
Strip(s) ==
    CASE s = "Bob " -> "Bob"
      [] s = " " -> ""
      [] OTHER -> s

\* The lower-cased strings of the model in ascending order (str comparison).
LowerOrder ==
    <<"", "a", "ann", "b", "bob", "cid", "dee", "eve", "falcon", "notes",
      "vader", "vader|o", "vader|z", "yoda", "zed">>

Rank(s) == CHOOSE r \in 1..Len(LowerOrder) : LowerOrder[r] = s

\* a < b for two lower-cased strings.
StrLess(a, b) == Rank(a) < Rank(b)

\* int(s) for a decimal string, default d (as _to_int).
_to_int(s, d) ==
    IF \E n \in 0..99 : ToString(n) = s
    THEN CHOOSE n \in 0..99 : ToString(n) = s
    ELSE d

\* The digits of an ally code string (the model's codes are digits already,
\* except the dashed form).
Digits(s) ==
    CASE s = "111-111" -> "111111"
      [] OTHER -> s

\* definitionId.split(":")[0]
BaseOfDefinition(defid) ==
    CASE defid = "VADER:SEVEN_STAR" -> "VADER"
      [] defid = "FALCON:SEVEN_STAR" -> "FALCON"
      [] defid = "YODA:SEVEN_STAR" -> "YODA"
      [] defid = "DARTHVADER:SEVEN_STAR" -> "DARTHVADER"
      [] OTHER -> defid

\* -------------------------------------------------------------- sequences
Range(s) == {s[j] : j \in 1..Len(s)}

Blank(n) == [j \in 1..n |-> ""]

\* prev[:] + [""] * (n - len(prev))
Pad(row, n) == IF Len(row) >= n THEN row ELSE row \o Blank(n - Len(row))

SetCell(row, j, v) == [row EXCEPT ![j] = v]

\* dict.get(k) of a dict whose values are positive numbers: 0 stands for None.
Get(d, k) == IF k \in DOMAIN d THEN d[k] ELSE 0

\* {h.strip().lower(): i for i, h in enumerate(headers, start=1)}
ColMap(headers) ==
    [k \in {Lower(Strip(headers[j])) : j \in 1..Len(headers)} |->
        CHOOSE j \in 1..Len(headers) :
            /\ Lower(Strip(headers[j])) = k
            /\ \A j2 \in 1..Len(headers) : Lower(Strip(headers[j2])) = k => j2 <= j]


\* An iterated dict: a sequence of entries [k, v] in insertion order.
DictHas(d, key) == \E j \in 1..Len(d) : d[j].k = key

DictPos(d, key) == CHOOSE j \in 1..Len(d) : d[j].k = key

DictGet(d, key) == d[DictPos(d, key)].v

\* d[key] = val: a new key is appended, an existing key keeps its place.
DictPut(d, key, val) ==
    IF DictHas(d, key)
    THEN [d EXCEPT ![DictPos(d, key)] = [k |-> key, v |-> val]]
    ELSE Append(d, [k |-> key, v |-> val])

DictKeys(d) == [j \in 1..Len(d) |-> d[j].k]

RECURSIVE InsertByRank(_, _, _)
InsertByRank(sorted, x, rk) ==
    IF sorted = <<>> THEN <<x>>
    ELSE IF rk[x] < rk[Head(sorted)] THEN <<x>> \o sorted
         ELSE <<Head(sorted)>> \o InsertByRank(Tail(sorted), x, rk)

RECURSIVE SortByRank(_, _)
\* sorted(seq, key=rk): stable, elements with equal keys keep their order.
SortByRank(seq, rk) ==
    IF seq = <<>> THEN <<>>
    ELSE InsertByRank(SortByRank(SubSeq(seq, 1, Len(seq) - 1), rk), seq[Len(seq)], rk)

\* ------------------------------------------------------- derived fields
\* EXCLUDE_BASEID_CONTAINS (line 48) with one substring configured through
\* the environment, upper-cased; no id of the runs below holds it.
EXCLUDE_BASEID_CONTAINS == {"EVENT"}

\* str.upper() on the keys of the model.
Upper(s) ==
    CASE s = "event_falcon" -> "EVENT_FALCON"
      [] s = "event_z9" -> "EVENT_Z9"
      [] s = "z1" -> "Z1"
      [] s = "z2" -> "Z2"
      [] s = "z3" -> "Z3"
      [] s = "zx" -> "ZX"
      [] s = "o1" -> "O1"
      [] OTHER -> s

\* sub in s, for the upper-cased keys of the model.
Contains(s, sub) ==
    <<s, sub>> \in {<<"EVENT_VADER", "EVENT">>, <<"EVENT_FALCON", "EVENT">>,
                    <<"EVENT_Z9", "EVENT">>}

_exclude_baseid(base_id) ==
    \E sub \in EXCLUDE_BASEID_CONTAINS : Contains(Upper(base_id), sub)

_exclude_skillid(skill_id) ==
    \E sub \in EXCLUDE_BASEID_CONTAINS : Contains(Upper(skill_id), sub)

\* f"{league} {div}".strip()
_parse_player_rating(p) ==
    LET league == p.leagueId
        c == IF p.divisionId = <<>> THEN 0 ELSE p.divisionId[1]
        div == IF c \in DOMAIN DIV_MAP THEN DIV_MAP[c] ELSE ""
    IN  IF league = "" THEN div
        ELSE IF div = "" THEN league
        ELSE league \o " " \o div

_parse_allycode(p) == Digits(Strip(p.allyCode))

map_member_level(val) ==
    LET c == IF val = <<>> THEN 0 ELSE val[1]
    IN  IF c \in DOMAIN ROLE_MAP THEN ROLE_MAP[c]
        ELSE IF c # 0 THEN ToString(c) ELSE ""

\* Variant: the ship label is given only to entries that report no relic
\* tier.
UnitValueStep_TierFirst(out, ru, is_ship_by_base) ==
    LET defid == Strip(ru.definitionId)
        base == BaseOfDefinition(defid)
        relic == IF ru.relic = <<>> THEN 0 ELSE ru.relic[1]
    IN  IF defid = "" \/ base = "" \/ _exclude_baseid(base) THEN out
        ELSE IF base \in DOMAIN is_ship_by_base /\ is_ship_by_base[base] /\ ru.relic = <<>>
             THEN DictPut(out, base, "Nave")
        ELSE DictPut(out, base,
                     IF relic \in DOMAIN RELIC_MAP THEN RELIC_MAP[relic] ELSE RELIC_MAP[0])

\* One roster entry of roster_to_unit_values: the dict after the entry.
UnitValueStep(out, ru, is_ship_by_base) ==
    LET defid == Strip(ru.definitionId)
        base == BaseOfDefinition(defid)
        relic == IF ru.relic = <<>> THEN 0 ELSE ru.relic[1]
    IN  IF defid = "" \/ base = "" \/ _exclude_baseid(base) THEN out
        ELSE IF base \in DOMAIN is_ship_by_base /\ is_ship_by_base[base]
             THEN DictPut(out, base, "Nave")
        ELSE DictPut(out, base,
                     IF relic \in DOMAIN RELIC_MAP THEN RELIC_MAP[relic] ELSE RELIC_MAP[0])

RECURSIVE UnitValuesFrom(_, _, _)
UnitValuesFrom(out, roster_units, is_ship_by_base) ==
    IF roster_units = <<>> THEN out
    ELSE UnitValuesFrom(UnitValueStep(out, Head(roster_units), is_ship_by_base),
                        Tail(roster_units), is_ship_by_base)

\* base id -> label, in roster order.
roster_to_unit_values(roster_units, is_ship_by_base) ==
    UnitValuesFrom(<<>>, roster_units, is_ship_by_base)

\* ru.get(...) on a roster entry that is no object raises AttributeError.
RosterRaises(roster_units) == \E j \in 1..Len(roster_units) : ~roster_units[j].dict

\* --------------------------------------------------------------- headers
HeaderPresent(headers, name_l) ==
    \E j \in 1..Len(headers) : Lower(Strip(headers[j])) = name_l

RECURSIVE AppendMissing(_, _, _, _)
AppendMissing(headers, required, synonyms, n) ==
    IF n > Len(required) THEN headers
    ELSE LET req == required[n]
             has_syn == /\ req \in DOMAIN synonyms
                        /\ \E a \in 1..Len(synonyms[req]) :
                               HeaderPresent(headers, Lower(Strip(synonyms[req][a])))
         IN  IF HeaderPresent(headers, Lower(req)) \/ has_syn
             THEN AppendMissing(headers, required, synonyms, n + 1)
             ELSE AppendMissing(Append(headers, req), required, synonyms, n + 1)

\* Variant: a sheet that misses a required header gets the required list as
\* its header row.
_ensure_headers_Reset(headers, required, synonyms) ==
    IF AppendMissing(headers, required, synonyms, 1) = headers /\ headers # <<>>
    THEN headers
    ELSE required

\* The header row after _ensure_headers.
_ensure_headers(headers, required, synonyms) ==
    IF headers = <<>> THEN required
    ELSE AppendMissing(headers, required, synonyms, 1)

_resolve_col(colmap, name, synonyms) ==
    LET key == Lower(Strip(name))
    IN  IF key \in DOMAIN colmap THEN colmap[key]
        ELSE IF name \in DOMAIN synonyms
                /\ \E a \in 1..Len(synonyms[name]) :
                       Lower(Strip(synonyms[name][a])) \in DOMAIN colmap
        THEN LET a == CHOOSE a \in 1..Len(synonyms[name]) :
                          /\ Lower(Strip(synonyms[name][a])) \in DOMAIN colmap
                          /\ \A b \in 1..(a - 1) :
                                 Lower(Strip(synonyms[name][b])) \notin DOMAIN colmap
             IN  colmap[Lower(Strip(synonyms[name][a]))]
        ELSE 0

\* The sheet after its header row was rewritten: the grid widens.
WithHeaders(sheet, headers) ==
    [headers |-> headers,
     rows |-> [j \in 1..Len(sheet.rows) |-> Pad(sheet.rows[j], Len(headers))]]

\* ---------------------------------------------------------------- Guilds
\* json.dumps(identifier, separators=(",", ":")) of the raid identifiers used.
_to_compact_json(obj) ==
    CASE obj = [campaignId |-> "raid1"] -> "{\"campaignId\":\"raid1\"}"
      [] obj = [campaignId |-> "raid2"] -> "{\"campaignId\":\"raid2\"}"
      [] OTHER -> ""

\* <<identifier, points>> of the first lastRaidPointsSummary entry.
_parse_last_raid(gdata) ==
    IF gdata.lastRaidPointsSummary # <<>>
    THEN <<_to_compact_json(gdata.lastRaidPointsSummary[1].identifier),
           gdata.lastRaidPointsSummary[1].totalPoints>>
    ELSE <<"", 0>>

\* Variant: should_set lets a blank string through.
SetText_Always(row, colmap, colname, val) ==
    LET idx == _resolve_col(colmap, colname, GUILDS_HEADER_SYNONYMS)
    IN  IF idx # 0 THEN SetCell(row, idx, val) ELSE row

\* str(val) when should_set(val), for a string value.
SetText(row, colmap, colname, val) ==
    LET idx == _resolve_col(colmap, colname, GUILDS_HEADER_SYNONYMS)
    IN  IF Strip(val) # "" /\ idx # 0 THEN SetCell(row, idx, val) ELSE row

\* str(val) for a number: should_set is true of every number.
SetNumber(row, colmap, colname, val) ==
    LET idx == _resolve_col(colmap, colname, GUILDS_HEADER_SYNONYMS)
    IN  IF idx # 0 THEN SetCell(row, idx, ToString(val)) ELSE row

\* The row upsert_guild_row writes at the guild's position (newvals.gp is
\* <<>> for None: should_set is false of it).
upsert_guild_row(headers_now, colmap, prev_row, newvals, now) ==
    LET row0 == IF prev_row # <<>> THEN prev_row ELSE Blank(Len(headers_now))
        row1 == SetText(row0, colmap, "Guild Name", newvals.guild_name)
        row2 == SetNumber(row1, colmap, "Members", newvals.members)
        row3 == IF newvals.gp = <<>> THEN row2
                ELSE SetNumber(row2, colmap, "GP", newvals.gp[1])
        row4 == SetText(row3, colmap, "Last Raid Id", newvals.last_raid_id)
        row5 == SetNumber(row4, colmap, "Last Raid Score", newvals.last_raid_score)
    IN  SetText(row5, colmap, "Last Update", now)

\* guild_name of process_guild: the payload's name, else the Guilds row's.
GuildNameOf(gdata, headers, guild_row_vals) ==
    LET idx_name == IF \E j \in 1..Len(headers) : headers[j] = "Guild Name"
                    THEN CHOOSE j \in 1..Len(headers) :
                             /\ headers[j] = "Guild Name"
                             /\ \A j2 \in 1..(j - 1) : headers[j2] # "Guild Name"
                    ELSE 0
    IN  IF gdata.name # "" THEN gdata.name
        ELSE IF guild_row_vals # <<>> /\ idx_name # 0 /\ idx_name <= Len(guild_row_vals)
        THEN guild_row_vals[idx_name]
        ELSE ""

\* newvals of process_guild.
GuildNewVals(gdata, guild_name) ==
    [guild_name |-> guild_name,
     members |-> Len(gdata.member),
     gp |-> IF gdata.gp = <<>> THEN <<0>> ELSE gdata.gp,
     last_raid_id |-> _parse_last_raid(gdata)[1],
     last_raid_score |-> _parse_last_raid(gdata)[2]]

\* ------------------------------------------------------------ catalogs
RECURSIVE IngestUnits(_, _, _)
\* One catalog sheet of read_unit_catalog; acc maps base_id to [name, ship].
IngestUnits(acc, rows, ship) ==
    IF rows = <<>> THEN acc
    ELSE LET base == Strip(Head(rows).base_id)
             name == Strip(Head(rows).name)
         IN  IF base = "" \/ _exclude_baseid(base) \/ name = ""
             THEN IngestUnits(acc, Tail(rows), ship)
             ELSE IngestUnits(DictPut(acc, base, [name |-> name, ship |-> ship]),
                              Tail(rows), ship)

\* base_to_name and is_ship, in dict order.
read_unit_catalog(cat) ==
    IngestUnits(IngestUnits(<<>>, cat.characters, FALSE), cat.ships, TRUE)

\* unit_base_ids: sorted by friendly name.
UnitBaseIds(units) ==
    SortByRank(DictKeys(units),
               [b \in Range(DictKeys(units)) |-> Rank(Lower(DictGet(units, b).name))])

BaseToName(units) == [b \in Range(DictKeys(units)) |-> DictGet(units, b).name]

IsShip(units) == [b \in Range(DictKeys(units)) |-> DictGet(units, b).ship]

RECURSIVE IngestSkills(_, _)
\* _ingest of read_skill_catalog: setdefault keeps the first header of a skill id.
IngestSkills(acc, rows) ==
    IF rows = <<>> THEN acc
    ELSE LET sid == Strip(Head(rows).skillid)
             header == IF Strip(Head(rows).pref) # "" THEN Strip(Head(rows).pref)
                       ELSE Strip(Head(rows).sname)
         IN  IF sid = "" \/ _exclude_skillid(sid) \/ header = "" \/ sid \in DOMAIN acc
             THEN IngestSkills(acc, Tail(rows))
             ELSE IngestSkills(acc @@ (sid :> header), Tail(rows))

\* skill_id_to_header
read_skill_catalog(cat) ==
    IngestSkills(IngestSkills([x \in {} |-> ""], cat.zetas), cat.omicrons)

RECURSIVE AppendUnitHeaders(_, _, _)
AppendUnitHeaders(headers, names, n) ==
    IF n > Len(names) THEN headers
    ELSE IF \E j \in 1..Len(headers) : Lower(headers[j]) = Lower(names[n])
         THEN AppendUnitHeaders(headers, names, n + 1)
         ELSE AppendUnitHeaders(Append(headers, names[n]), names, n + 1)

\* Variant: the header row is rebuilt from the catalog of the run.
ensure_player_units_headers_Rebuilt(headers, unit_base_ids, base_to_name) ==
    PLAYER_UNITS_MIN_PREFIX \o [j \in 1..Len(unit_base_ids) |-> base_to_name[unit_base_ids[j]]]

\* The Player_Units header row after ensure_player_units_headers.
ensure_player_units_headers(headers, unit_base_ids, base_to_name) ==
    LET names == [j \in 1..Len(unit_base_ids) |-> base_to_name[unit_base_ids[j]]]
    IN  IF headers = <<>> THEN PLAYER_UNITS_MIN_PREFIX \o names
        ELSE AppendUnitHeaders(headers, PLAYER_UNITS_MIN_PREFIX \o names, 1)

\* unit_col_by_friendly.get(fname.strip().lower()), 0 for None.
UnitCol(pu_hdrs, units, fname) ==
    IF \E b \in Range(DictKeys(units)) :
           Lower(Strip(DictGet(units, b).name)) = Lower(Strip(fname))
    THEN Get(ColMap(pu_hdrs), Lower(Strip(fname)))
    ELSE 0

\* ------------------------------------------------------- Player_Skills
EmptyDict == [x \in {} |-> ""]

\* d of read_ps_matrix for one row: header -> non-empty cell, by position.
PsRowDict(headers, r) ==
    LET cols(sh) == {j \in 3..Len(headers) : headers[j] = sh /\ j <= Len(r) /\ r[j] # ""}
    IN  [sh \in {headers[j] : j \in {j2 \in 3..Len(headers) : j2 <= Len(r) /\ r[j2] # ""}} |->
            r[CHOOSE j \in cols(sh) : \A j2 \in cols(sh) : j2 <= j]]

RECURSIVE ReadPsRows(_, _, _, _, _)
ReadPsRows(mat, headers, rows, i_g, i_n) ==
    IF rows = <<>> THEN mat
    ELSE LET r == Head(rows)
             g == IF i_g <= Len(r) THEN Strip(r[i_g]) ELSE ""
             n == IF i_n <= Len(r) THEN Strip(r[i_n]) ELSE ""
         IN  IF g = "" \/ n = "" THEN ReadPsRows(mat, headers, Tail(rows), i_g, i_n)
             ELSE ReadPsRows(DictPut(mat, <<g, n>>, PsRowDict(headers, r)),
                             headers, Tail(rows), i_g, i_n)

\* mat of read_ps_matrix: (guild, player) -> {header: value}.
read_ps_matrix(sheet) ==
    LET cmap == ColMap(sheet.headers)
        i_g == Get(cmap, "player guild")
        i_n == Get(cmap, "player name")
    IN  IF sheet.headers = <<>> \/ i_g = 0 \/ i_n = 0 THEN <<>>
        ELSE ReadPsRows(<<>>, sheet.headers, sheet.rows, i_g, i_n)

PsKeyRank(key) == Rank(Lower(key[1])) * 100 + Rank(Lower(key[2]))

\* The sheet write_ps_matrix leaves.
write_ps_matrix(matrix_dict, skill_headers) ==
    LET keys == DictKeys(matrix_dict)
        keys_sorted == SortByRank(keys, [key \in Range(keys) |-> PsKeyRank(key)])
        row(key) == LET vals == DictGet(matrix_dict, key)
                    IN  <<key[1], key[2]>> \o
                        [j \in 1..Len(skill_headers) |->
                            IF skill_headers[j] \in DOMAIN vals
                            THEN vals[skill_headers[j]] ELSE ""]
    IN  [headers |-> PS_KEY_HEADERS \o skill_headers,
         rows |-> [j \in 1..Len(keys_sorted) |-> row(keys_sorted[j])]]

\* skills_in_use
SkillsInUse(matrix_dict) ==
    {sh \in UNION {DOMAIN matrix_dict[j].v : j \in 1..Len(matrix_dict)} :
        /\ sh # ""
        /\ \E j \in 1..Len(matrix_dict) :
               sh \in DOMAIN matrix_dict[j].v /\ matrix_dict[j].v[sh] # ""}

\* sorted(skills_in_use, key=str.lower)
SortedHeaders(in_use) ==
    [j \in 1..Cardinality(in_use) |->
        CHOOSE sh \in in_use :
            Cardinality({o \in in_use : StrLess(Lower(o), Lower(sh))}) = j - 1]

\* del ps_matrix_exist[key] for every key of guild g.
DropGuild(matrix_dict, g) == SelectSeq(matrix_dict, LAMBDA e : e.k[1] # g)

RECURSIVE DropGuilds(_, _)
DropGuilds(matrix_dict, names) ==
    IF names = {} THEN matrix_dict
    ELSE LET g == CHOOSE g \in names : TRUE
         IN  DropGuilds(DropGuild(matrix_dict, g), names \ {g})

RECURSIVE PutAll(_, _)
\* for key, vals in skills_matrix.items(): ps_matrix_exist[key] = vals
PutAll(matrix_dict, entries) ==
    IF entries = <<>> THEN matrix_dict
    ELSE PutAll(DictPut(matrix_dict, Head(entries).k, Head(entries).v), Tail(entries))

\* Variant: the last observation of a skill is kept, whatever its tier.
SkillStep_LastWins(rowdict, s, skill_id_to_header) ==
    LET sid == Strip(s.id)
        tier_int == IF s.tier = <<>> THEN 0 ELSE s.tier[1]
        header == skill_id_to_header[sid]
    IN  IF ~s.dict \/ sid = "" \/ sid \notin DOMAIN skill_id_to_header
           \/ _exclude_skillid(sid)
        THEN rowdict
        ELSE (header :> ToString(tier_int)) @@ rowdict

\* One skill of a roster unit: rowdict after it.
SkillStep(rowdict, s, skill_id_to_header) ==
    LET sid == Strip(s.id)
        tier_int == IF s.tier = <<>> THEN 0 ELSE s.tier[1]
        header == skill_id_to_header[sid]
    IN  IF ~s.dict \/ sid = "" \/ sid \notin DOMAIN skill_id_to_header
           \/ _exclude_skillid(sid)
        THEN rowdict
        ELSE IF header \notin DOMAIN rowdict \/ tier_int > _to_int(rowdict[header], 0)
        THEN (header :> ToString(tier_int)) @@ rowdict
        ELSE rowdict

RECURSIVE SkillsOfUnit(_, _, _)
SkillsOfUnit(rowdict, skills, skill_id_to_header) ==
    IF skills = <<>> THEN rowdict
    ELSE SkillsOfUnit(SkillStep(rowdict, Head(skills), skill_id_to_header),
                      Tail(skills), skill_id_to_header)

RECURSIVE SkillsOfRoster(_, _, _)
\* rowdict after the loop over the roster (lines 705-727).
SkillsOfRoster(rowdict, roster, skill_id_to_header) ==
    IF roster = <<>> THEN rowdict
    ELSE SkillsOfRoster(SkillsOfUnit(rowdict, Head(roster).skill, skill_id_to_header),
                        Tail(roster), skill_id_to_header)

\* ------------------------------------------------ Players / Player_Units
\* Variant: the positions are those the rows had before the first row of the
\* list was deleted (one too high).
rebuild_players_index_by_pid_Shifted(rows, idx_pid_col_1b) ==
    IF idx_pid_col_1b = 0 THEN EmptyDict
    ELSE LET pid(j) == IF idx_pid_col_1b <= Len(rows[j])
                       THEN Strip(rows[j][idx_pid_col_1b]) ELSE ""
         IN  [id \in {pid(j) : j \in 1..Len(rows)} \ {""} |->
                 1 + CHOOSE j \in 1..Len(rows) :
                     pid(j) = id /\ \A j2 \in 1..Len(rows) : pid(j2) = id => j2 <= j]

\* rebuild_players_index_by_pid: player id -> position (1-based, 0 for None).
rebuild_players_index_by_pid(rows, idx_pid_col_1b) ==
    IF idx_pid_col_1b = 0 THEN EmptyDict
    ELSE LET pid(j) == IF idx_pid_col_1b <= Len(rows[j])
                       THEN Strip(rows[j][idx_pid_col_1b]) ELSE ""
         IN  [id \in {pid(j) : j \in 1..Len(rows)} \ {""} |->
                 CHOOSE j \in 1..Len(rows) :
                     pid(j) = id /\ \A j2 \in 1..Len(rows) : pid(j2) = id => j2 <= j]

\* f"{g}|{n}"
PuKey(g, n) == g \o "|" \o n

\* rebuild_pu_index_by_guild_name: "guild|name" -> position (1-based).
rebuild_pu_index_by_guild_name(rows, idx_guild_1b, idx_pname_1b) ==
    IF idx_guild_1b = 0 \/ idx_pname_1b = 0 THEN EmptyDict
    ELSE LET g(j) == IF idx_guild_1b <= Len(rows[j])
                     THEN Strip(rows[j][idx_guild_1b]) ELSE ""
             n(j) == IF idx_pname_1b <= Len(rows[j])
                     THEN Lower(Strip(rows[j][idx_pname_1b])) ELSE ""
             keyed == {j \in 1..Len(rows) : g(j) # "" /\ n(j) # ""}
         IN  [key \in {PuKey(g(j), n(j)) : j \in keyed} |->
                 CHOOSE j \in keyed :
                     /\ PuKey(g(j), n(j)) = key
                     /\ \A j2 \in keyed : PuKey(g(j2), n(j2)) = key => j2 <= j]

\* Variant: the deletion forgets the comparison with the guild's name and
\* drops every row that carries a guild name.
DeleteGuildRows_Unscoped(rows, idx_guild_1b, guild_name) ==
    SelectSeq(rows, LAMBDA r :
        ~(idx_guild_1b <= Len(r) /\ Strip(r[idx_guild_1b]) # ""))

\* The rows kept by the selective delete of a guild (lines 624-625, 629-630).
DeleteGuildRows(rows, idx_guild_1b, guild_name) ==
    SelectSeq(rows, LAMBDA r :
        ~(idx_guild_1b <= Len(r) /\ Strip(r[idx_guild_1b]) = guild_name))

\* setp(col, val)
SetP(merged, pcol, col, val) ==
    IF Get(pcol, Lower(col)) # 0 THEN SetCell(merged, Get(pcol, Lower(col)), val)
    ELSE merged

\* merged of the Players upsert (lines 647-665).
PlayersRow(prev, p_hdrs, pdata, guild_name) ==
    LET pcol == ColMap(p_hdrs)
        m0 == Pad(prev, Len(p_hdrs))
        m1 == SetP(m0, pcol, "Player Id", pdata.playerId)
        m2 == SetP(m1, pcol, "Player Name", pdata.name)
        m3 == SetP(m2, pcol, "Ally code", pdata.ally)
        m4 == SetP(m3, pcol, "Guild Name", guild_name)
        m5 == SetP(m4, pcol, "Role", pdata.role)
        m6 == SetP(m5, pcol, "Level", pdata.level)
        m7 == SetP(m6, pcol, "GP", IF pdata.gp = 0 THEN "" ELSE ToString(pdata.gp))
    IN  SetP(m7, pcol, "GAC League", pdata.gac)

RECURSIVE ApplyUnitValues(_, _, _, _)
\* lines 690-695: each label goes to the column of the unit's friendly name.
ApplyUnitValues(merged, base_to_val, pu_hdrs, units) ==
    IF base_to_val = <<>> THEN merged
    ELSE LET base_id == Head(base_to_val).k
             col == IF DictHas(units, base_id)
                    THEN UnitCol(pu_hdrs, units, DictGet(units, base_id).name)
                    ELSE 0
         IN  ApplyUnitValues(IF col # 0 THEN SetCell(merged, col, Head(base_to_val).v)
                             ELSE merged,
                             Tail(base_to_val), pu_hdrs, units)

\* merged of the Player_Units upsert (lines 677-695).
PlayerUnitsRow(prev, pu_hdrs, units, pdata, guild_name) ==
    LET colmap == ColMap(pu_hdrs)
        idx_g == Get(colmap, "guild name")
        idx_n == Get(colmap, "player name")
        m0 == Pad(prev, Len(pu_hdrs))
        m1 == IF idx_g # 0 THEN SetCell(m0, idx_g, guild_name) ELSE m0
        m2 == IF idx_n # 0 THEN SetCell(m1, idx_n, pdata.name) ELSE m1
    IN  ApplyUnitValues(m2, roster_to_unit_values(pdata.roster, IsShip(units)),
                        pu_hdrs, units)

\* write_table_body: the sheet keeps its header row and gets exactly the rows.
write_table_body(sheet, headers, rows) ==
    LET cols == IF headers # <<>> THEN Len(headers) ELSE 1
    IN  [headers |-> SubSeq(Pad(sheet.headers, cols), 1, cols),
         rows |-> [j \in 1..Len(rows) |-> SubSeq(Pad(rows[j], cols), 1, cols)]]

\* ------------------------------------------------- the game data service
Member(pid, pname, level, gp) ==
    [dict |-> TRUE, playerId |-> pid, playerName |-> pname,
     memberLevel |-> level, galacticPower |-> gp]

\* A member entry that is no JSON object.
NonObjectMember ==
    [dict |-> FALSE, playerId |-> "", playerName |-> "",
     memberLevel |-> <<>>, galacticPower |-> 0]

Skill(id, tier) == [dict |-> TRUE, id |-> id, tier |-> <<tier>>]

Unit(defid, relic, skills) ==
    [dict |-> TRUE, definitionId |-> defid, relic |-> relic, skill |-> skills]

\* A roster entry that is no JSON object.
NonObjectUnit == [dict |-> FALSE, definitionId |-> "", relic |-> <<>>, skill |-> <<>>]

\* p_resp = {} after an exhausted player lookup.
EmptyPlayer ==
    [dict |-> TRUE, name |-> "", allyCode |-> "", level |-> <<>>, leagueId |-> "",
     divisionId |-> <<>>, rosterUnit |-> <<>>]

\* A player response that is no JSON object.
NonObjectPlayer == [EmptyPlayer EXCEPT !.dict = FALSE]

\* The members the service can report for guild g1, in payload order:
\* p1 resolves, p2's lookup is exhausted, one member has no playerId, p4's
\* response is no object, p5's roster holds a non-object entry, and one
\* member entry is no object.
MemberPool ==
    <<Member("p1", "Ann", <<2>>, 100),
      Member("p2", "Bob ", <<3>>, 200),
      Member("", "Cid", <<2>>, 50),
      Member("p4", "Dee", <<4>>, 300),
      Member("p5", "Eve", <<1>>, 0),
      NonObjectMember>>

\* The player ids whose lookup raises after its retries.
ExhaustedPlayers == {"p2"}

\* The response of the player lookup.
RemotePlayer(pid) ==
    CASE pid = "p1" ->
           [dict |-> TRUE, name |-> "Ann", allyCode |-> "111-111", level |-> <<85>>,
            leagueId |-> "KYBER", divisionId |-> <<5>>,
            rosterUnit |-> <<Unit("VADER:SEVEN_STAR", <<9>>,
                                  <<Skill("z1", 3), Skill("z1", 7), Skill("z1", 5)>>),
                             Unit("FALCON:SEVEN_STAR", <<>>, <<>>)>>]
      [] pid = "p3" ->
           [dict |-> TRUE, name |-> "Zed", allyCode |-> "333", level |-> <<80>>,
            leagueId |-> "", divisionId |-> <<25>>,
            rosterUnit |-> <<Unit("VADER:SEVEN_STAR", <<2>>, <<Skill("z1", 5)>>)>>]
      [] pid = "p4" -> NonObjectPlayer
      [] pid = "p5" ->
           [dict |-> TRUE, name |-> "Eve", allyCode |-> "555", level |-> <<70>>,
            leagueId |-> "KYBER", divisionId |-> <<>>,
            rosterUnit |-> <<Unit("VADER:SEVEN_STAR", <<7>>, <<>>), NonObjectUnit>>]
      [] OTHER -> EmptyPlayer

\* The members of the pool at the positions S, in pool order.
Roster(S) ==
    [j \in 1..Cardinality(S) |->
        MemberPool[CHOOSE x \in S : Cardinality({y \in S : y < x}) = j - 1]]

Rosters1 ==
    {Roster(S) : S \in {T \in SUBSET (1..Len(MemberPool)) : Cardinality(T) <= MaxMembers}}

\* Guild g2 reports p3, or p1 (who has moved to it), or nobody.
Rosters2 ==
    {<<Member("p3", "Zed", <<4>>, 400)>>, <<Member("p1", "Ann", <<2>>, 100)>>, <<>>}

GuildPayload(name, gp, member, raid) ==
    [dict |-> TRUE, name |-> name, gp |-> gp, member |-> member,
     lastRaidPointsSummary |-> raid]

Remotes ==
    {("g1" :> GuildPayload("A", <<5000>>, r1,
                           <<[identifier |-> [campaignId |-> "raid1"], totalPoints |-> 77]>>))
     @@ ("g2" :> GuildPayload("B", <<>>, r2, <<>>)) :
        <<r1, r2>> \in {rr \in Rosters1 \X Rosters2 :
            \A a \in 1..Len(rr[1]) : \A b \in 1..Len(rr[2]) :
                rr[1][a].playerId # rr[2][b].playerId}}

\* How many of the first fetch_guild calls of a run fail, the guild filter,
\* and whether the service answers the preflight.
Services ==
    {[fails |-> ("g1" :> 0) @@ ("g2" :> 0), filter |-> {}, preflight |-> TRUE],
     [fails |-> ("g1" :> 1) @@ ("g2" :> 0), filter |-> {}, preflight |-> TRUE],
     [fails |-> ("g1" :> attempts) @@ ("g2" :> 0), filter |-> {}, preflight |-> TRUE],
     [fails |-> ("g1" :> 0) @@ ("g2" :> attempts), filter |-> {}, preflight |-> TRUE],
     [fails |-> ("g1" :> 0) @@ ("g2" :> 0), filter |-> {"g1"}, preflight |-> TRUE],
     [fails |-> ("g1" :> 0) @@ ("g2" :> 0), filter |-> {}, preflight |-> FALSE]}

\* ------------------------------------------------------------ the store
Catalogs ==
    {[characters |-> <<[base_id |-> "VADER", name |-> "Vader"]>>,
      ships |-> <<[base_id |-> "FALCON", name |-> "Falcon"]>>,
      zetas |-> z, omicrons |-> <<>>] :
        z \in {<<>>, <<[skillid |-> "z1", pref |-> "Vader|Z", sname |-> "Z"]>>}}

PlayersHeaders0 ==
    <<"Player Id", "Player Name", "Notes", "Ally code", "Guild Name", "Role",
      "Level", "GP", "GAC League">>

\* Guilds with the operator column in the middle and the GP synonym;
\* Players, Player_Units and Player_Skills as an earlier run left them, with
\* an operator column each.
StoreSeeded ==
    [guilds |->
        [headers |-> <<"Guild Id", "Guild Name", "Notes", "Members", "GP",
                       "Last Raid Id", "Last Raid Score", "Last Update">>,
         rows |-> <<<<"g1", "A", "keep1", "2", "4000", "", "0", "t0">>,
                    <<"g2", "B", "keep2", "1", "900", "", "0", "t0">>>>],
     players |->
        [headers |-> PlayersHeaders0,
         rows |-> <<<<"p1", "Ann", "n1", "111111", "A", "Miembro", "84", "90", "KYBER 5">>,
                    <<"p2", "Bob", "n2", "222", "A", "Oficial", "60", "200", "">>,
                    <<"p3", "Zed", "n3", "333", "B", "Lider", "80", "400", "1">>>>],
     pu |->
        [headers |-> <<"Guild Name", "Player Name", "Notes", "Vader">>,
         rows |-> <<<<"A", "Ann", "u1", "R5">>,
                    <<"A", "Bob", "u2", "R1">>,
                    <<"B", "Zed", "u3", "R0">>>>],
     ps |->
        [headers |-> <<"Player Guild", "Player Name", "Vader|Z", "Notes">>,
         rows |-> <<<<"A", "Ann", "6", "s1">>,
                    <<"A", "Bob", "8", "">>,
                    <<"B", "Zed", "5", "s3">>>>]]

\* p1 is still listed under guild B, which it has left.
StoreMoved ==
    [guilds |->
        [headers |-> GUILDS_REQUIRED \o <<"Notes">>,
         rows |-> <<<<"g1", "A", "2", "4000", "", "0", "t0", "keep1">>,
                    <<"g2", "B", "1", "900", "", "0", "t0", "keep2">>>>],
     players |->
        [headers |-> PlayersHeaders0,
         rows |-> <<<<"p1", "Ann", "n1", "111111", "B", "Miembro", "84", "90", "KYBER 5">>,
                    <<"p3", "Zed", "n3", "333", "B", "Lider", "80", "400", "1">>>>],
     pu |->
        [headers |-> <<"Guild Name", "Player Name", "Vader", "Falcon">>,
         rows |-> <<<<"B", "Ann", "R5", "Nave">>,
                    <<"B", "Zed", "R0", "">>>>],
     ps |->
        [headers |-> <<"Player Guild", "Player Name", "Vader|Z">>,
         rows |-> <<<<"B", "Ann", "6">>,
                    <<"B", "Zed", "5">>>>]]

\* Guilds seeded by the operator, the three output sheets still empty.
StoreFresh ==
    [guilds |->
        [headers |-> <<"Guild Id", "Guild Name">>,
         rows |-> <<<<"g1", "A">>, <<"g2", "">>>>],
     players |-> [headers |-> <<>>, rows |-> <<>>],
     pu |-> [headers |-> <<>>, rows |-> <<>>],
     ps |-> [headers |-> <<>>, rows |-> <<>>]]

\* No guild is listed yet; the three output sheets hold the rows of an
\* earlier run.
StoreNoGuilds == [StoreMoved EXCEPT !.guilds.rows = <<>>]

Stores == {StoreSeeded, StoreMoved, StoreFresh, StoreNoGuilds}

\* ----------------------------------------------------------------- state
VARIABLES
    \* the store
    guilds, players, pu, ps, catalog,
    \* the game data service and the configuration
    remote, guildFails, FILTER_GUILD_IDS, preflight_ok,
    \* the clock read by now_ts, and the runs made so far
    clock, runs,
    \* the sheets as they were when the current run started
    pre,
    \* the calls the current run has made to the game data client and to the
    \* store, in order
    log,
    \* run(): where it is, and its result
    pc, result,
    \* run(): what it read before the loop
    g_rows, p_headers, pu_headers, unit_catalog, skill_id_to_header,
    players_existing_rows, pu_existing_rows, ps_matrix_exist,
    \* run(): the loop over the guilds (i: data row, try: attempts made)
    i, try, players_data,
    \* process_guild: the member loop
    m_idx, pg_players_data,
    \* run(): the reinsertion loop and what it accumulates
    k_idx, final_players_rows, final_pu_rows, players_index_by_pid,
    current_by_guild_player, skills_matrix, processed_guild_names, processed,
    \* post_json_retry: one call of the game data client
    http,
    \* one call of a helper function: its arguments and what it returned
    call,
    \* the bot's SyncDataRunner: its lock, its /syncdata handlers and the
    \* sync_data subprocesses
    bot

storeVars == <<guilds, players, pu, ps, catalog>>
envVars == <<remote, guildFails, FILTER_GUILD_IDS, preflight_ok>>
sideVars == <<http, call, bot>>
histVars == <<clock, runs, pre>>
readVars ==
    <<g_rows, p_headers, pu_headers, unit_catalog, skill_id_to_header,
      players_existing_rows, pu_existing_rows, ps_matrix_exist>>
loopVars == <<i, try, players_data, m_idx, pg_players_data, k_idx>>
accVars ==
    <<final_players_rows, final_pu_rows, players_index_by_pid,
      current_by_guild_player, skills_matrix, processed_guild_names, processed>>

vars ==
    <<storeVars, envVars, sideVars, histVars, log, pc, result, readVars, loopVars, accVars>>

\* No call of the game data client, or of a helper, is under way.
NoRequest == [pc |-> "none"]

NoCall == [op |-> "none"]

\* The /syncdata commands.
Commands == 1..MaxCommands

\* SyncDataRunner() (main_bot.py lines 672-673): a free lock, no handler
\* started, no subprocess. waiters and woken are the lock's queue of waiting
\* acquirers and the one release() has woken; launched and waited record
\* which commands started a subprocess and which waited for the lock.
NoSync ==
    [locked |-> FALSE, waiters |-> <<>>, woken |-> 0,
     pc |-> [c \in Commands |-> "new"],
     running |-> {}, launched |-> <<>>, waited |-> {}]

\* now_ts()
now_ts == "t" \o ToString(clock)

Init ==
    /\ \E st \in Stores :
        /\ guilds = st.guilds
        /\ players = st.players
        /\ pu = st.pu
        /\ ps = st.ps
        /\ pre = st
    /\ catalog \in Catalogs
    /\ remote \in Remotes
    /\ \E sv \in Services :
        /\ guildFails = sv.fails
        /\ FILTER_GUILD_IDS = sv.filter
        /\ preflight_ok = sv.preflight
    /\ log = <<>>
    /\ clock = 0
    /\ runs = 0
    /\ pc = "idle"
    /\ result = ""
    /\ g_rows = <<>>
    /\ p_headers = <<>>
    /\ pu_headers = <<>>
    /\ unit_catalog = <<>>
    /\ skill_id_to_header = EmptyDict
    /\ players_existing_rows = <<>>
    /\ pu_existing_rows = <<>>
    /\ ps_matrix_exist = <<>>
    /\ i = 1
    /\ try = 0
    /\ players_data = <<>>
    /\ m_idx = 1
    /\ pg_players_data = <<>>
    /\ k_idx = 1
    /\ final_players_rows = <<>>
    /\ final_pu_rows = <<>>
    /\ players_index_by_pid = EmptyDict
    /\ current_by_guild_player = EmptyDict
    /\ skills_matrix = <<>>
    /\ processed_guild_names = {}
    /\ processed = 0
    /\ http = NoRequest
    /\ call = NoCall
    /\ bot = NoSync

\* ------------------------------------------------- the calls a run makes
\* A call of the game data client (fetch_guild, fetch_player_by_id).
Lookup(fn, id) == [e |-> fn, id |-> id]

\* A call of the store: a read of a sheet, a write of its header row or a
\* write of data rows.
StoreCall(kind, table) == [e |-> kind, id |-> table]

\* The store calls of lines 541-567, the reads of a sheet that follow one
\* another taken as one: each "write_header" happens only if the header row
\* was missing or changed.
StartCalls(g_now, p_now, pu_now) ==
    (IF g_now.headers # guilds.headers \/ guilds.headers = <<>>
     THEN <<StoreCall("read", "Guilds"), StoreCall("write_header", "Guilds")>>
     ELSE <<StoreCall("read", "Guilds")>>)
    \o (IF p_now.headers # players.headers \/ players.headers = <<>>
        THEN <<StoreCall("read", "Players"), StoreCall("write_header", "Players")>>
        ELSE <<StoreCall("read", "Players")>>)
    \o <<StoreCall("read", "Characters"), StoreCall("read", "Ships")>>
    \o (IF pu_now.headers # pu.headers \/ pu.headers = <<>>
        THEN <<StoreCall("read", "Player_Units"), StoreCall("write_header", "Player_Units"),
               StoreCall("read", "Player_Units")>>
        ELSE <<StoreCall("read", "Player_Units")>>)
    \o <<StoreCall("read", "Players")>>
    \o <<StoreCall("read", "Player_Skills"), StoreCall("read", "Zetas"),
         StoreCall("read", "Omicrons"), StoreCall("read", "Guilds")>>

\* ------------------------------------------------------ run(): the start
\* Lines 531-533: the preflight against the data service fails; run()
\* returns before it opens the spreadsheet.
PreflightFails ==
    /\ pc \in {"idle", "done"}
    /\ runs < MaxRuns
    /\ ~preflight_ok
    /\ runs' = runs + 1
    /\ pre' = [guilds |-> guilds, players |-> players, pu |-> pu, ps |-> ps]
    /\ log' = <<>>
    /\ pc' = "done"
    /\ result' = "error: comlink preflight"
    /\ UNCHANGED <<storeVars, envVars, sideVars, clock, readVars, loopVars, accVars>>

\* Lines 530-589: headers ensured, catalogs and sheets read.
RunStart ==
    /\ pc \in {"idle", "done"}
    /\ runs < MaxRuns
    /\ preflight_ok
    /\ runs' = runs + 1
    /\ clock' = clock + 1
    /\ pre' = [guilds |-> guilds, players |-> players, pu |-> pu, ps |-> ps]
    /\ LET units == read_unit_catalog(catalog)
           g_now == WithHeaders(guilds,
                        _ensure_headers(guilds.headers, GUILDS_REQUIRED,
                                        GUILDS_HEADER_SYNONYMS))
           p_now == WithHeaders(players,
                        _ensure_headers(players.headers, PLAYERS_REQUIRED, NoSynonyms))
           pu_now == WithHeaders(pu,
                        ensure_player_units_headers(pu.headers, UnitBaseIds(units),
                                                    BaseToName(units)))
       IN  /\ guilds' = g_now
           /\ players' = p_now
           /\ pu' = pu_now
           /\ unit_catalog' = units
           /\ g_rows' = g_now.rows
           /\ p_headers' = p_now.headers
           /\ pu_headers' = pu_now.headers
           /\ players_existing_rows' = p_now.rows
           /\ pu_existing_rows' = pu_now.rows
           /\ final_players_rows' = p_now.rows
           /\ final_pu_rows' = pu_now.rows
           /\ players_index_by_pid' =
                 rebuild_players_index_by_pid(p_now.rows,
                                              Get(ColMap(p_now.headers), "player id"))
           /\ current_by_guild_player' =
                 rebuild_pu_index_by_guild_name(pu_now.rows,
                     Get(ColMap(pu_now.headers), "guild name"),
                     Get(ColMap(pu_now.headers), "player name"))
           /\ log' = StartCalls(g_now, p_now, pu_now)
                     \o (IF g_now.rows = <<>>
                         THEN <<StoreCall("write_header", "Player_Skills")>> ELSE <<>>)
           /\ IF g_now.rows = <<>>
              THEN /\ ps' = [headers |-> PS_KEY_HEADERS, rows |-> <<>>]
                   /\ pc' = "done"
                   /\ result' = "ok: 0 guilds"
              ELSE /\ ps' = ps
                   /\ pc' = "guild_loop"
                   /\ result' = ""
    /\ skill_id_to_header' = read_skill_catalog(catalog)
    /\ ps_matrix_exist' = read_ps_matrix(ps)
    /\ skills_matrix' = <<>>
    /\ processed_guild_names' = {}
    /\ processed' = 0
    /\ i' = 1
    /\ try' = 0
    /\ players_data' = <<>>
    /\ m_idx' = 1
    /\ pg_players_data' = <<>>
    /\ k_idx' = 1
    /\ UNCHANGED <<catalog, envVars, sideVars>>

\* ------------------------------------------------- run(): the guild loop
\* idx_gid: the "Guild Id" column (lines 576-583).
IdxGid ==
    LET h == guilds.headers
    IN  IF \E j \in 1..Len(h) : h[j] = "Guild Id"
        THEN CHOOSE j \in 1..Len(h) : h[j] = "Guild Id" /\ \A j2 \in 1..(j - 1) : h[j2] # "Guild Id"
        ELSE CHOOSE j \in 1..Len(h) :
                 Lower(h[j]) = "guild id" /\ \A j2 \in 1..(j - 1) : Lower(h[j2]) # "guild id"

\* gid of the row the loop is at.
GidAt(n) == IF IdxGid <= Len(g_rows[n]) THEN Strip(g_rows[n][IdxGid]) ELSE ""

Gid == GidAt(i)

Skipped(gid) == gid = "" \/ (FILTER_GUILD_IDS # {} /\ gid \notin FILTER_GUILD_IDS)

\* Lines 593-596: a row without id, or outside the filter.
GuildSkip ==
    /\ pc = "guild_loop"
    /\ i <= Len(g_rows)
    /\ Skipped(Gid)
    /\ i' = i + 1
    /\ UNCHANGED <<storeVars, envVars, sideVars, histVars, log, pc, result, readVars, try,
                   players_data, m_idx, pg_players_data, k_idx, accVars>>

\* Lines 599-603: the attempts of a guild begin.
GuildBegin ==
    /\ pc = "guild_loop"
    /\ i <= Len(g_rows)
    /\ ~Skipped(Gid)
    /\ pc' = "process_guild"
    /\ try' = 0
    /\ players_data' = <<>>
    /\ UNCHANGED <<storeVars, envVars, sideVars, histVars, log, result, readVars, i, m_idx,
                   pg_players_data, k_idx, accVars>>

\* Variant: the last failed attempt is not caught and ends the run.
AttemptFailed_EndsRun ==
    /\ try' = try + 1
    /\ IF try + 1 >= attempts
       THEN pc' = "done" /\ i' = i
       ELSE pc' = "process_guild" /\ i' = i
    /\ UNCHANGED <<envVars, sideVars, histVars, result, readVars, players_data, m_idx,
                   pg_players_data, k_idx, accVars>>

\* Variant: after the last failed attempt the run goes on waiting for the
\* service and never resumes.
AttemptFailed_WaitsForever ==
    /\ try' = try + 1
    /\ IF try + 1 >= attempts
       THEN pc' = "waiting" /\ i' = i
       ELSE pc' = "process_guild" /\ i' = i
    /\ UNCHANGED <<envVars, sideVars, histVars, result, readVars, players_data, m_idx,
                   pg_players_data, k_idx, accVars>>

\* Lines 608-614: process_guild raised; after the last attempt the guild is
\* abandoned and the loop continues.
AttemptFailed ==
    /\ try' = try + 1
    /\ IF try + 1 >= attempts
       THEN pc' = "guild_loop" /\ i' = i + 1
       ELSE pc' = "process_guild" /\ i' = i
    /\ UNCHANGED <<envVars, sideVars, histVars, result, readVars, players_data, m_idx,
                   pg_players_data, k_idx, accVars>>

\* The service has a guild payload for the id (an unknown id is an error).
GuildKnown(gid) == gid \in DOMAIN remote

FetchGuildRaises(gid) ==
    \/ ~GuildKnown(gid)
    \/ try < guildFails[gid]
    \/ ~remote[gid].dict

\* Lines 461-465: fetch_guild raised.
FetchGuildFails ==
    /\ pc = "process_guild"
    /\ FetchGuildRaises(Gid)
    /\ AttemptFailed
    /\ log' = Append(log, Lookup("fetch_guild", Gid))
    /\ UNCHANGED storeVars

\* Lines 467-490: the guild payload arrived; its Guilds row is upserted.
FetchGuildOk ==
    /\ pc = "process_guild"
    /\ ~FetchGuildRaises(Gid)
    /\ LET gdata == remote[Gid]
           guild_name == GuildNameOf(gdata, guilds.headers, g_rows[i])
           row == upsert_guild_row(guilds.headers, ColMap(guilds.headers), g_rows[i],
                                   GuildNewVals(gdata, guild_name), now_ts)
       IN  guilds' = [guilds EXCEPT !.rows[i] = row]
    /\ log' = log \o <<Lookup("fetch_guild", Gid), StoreCall("read", "Guilds"),
                       StoreCall("write", "Guilds")>>
    /\ pc' = "members"
    /\ m_idx' = 1
    /\ pg_players_data' = <<>>
    /\ UNCHANGED <<players, pu, ps, catalog, envVars, sideVars, histVars, result, readVars,
                   i, try, players_data, k_idx, accVars>>

\* ------------------------------------------- process_guild: the members
members_arr == remote[Gid].member

\* guild_name of the process_guild call in progress.
CurGuildName == GuildNameOf(remote[Gid], guilds.headers, g_rows[i])

\* The entry of players_data built from member m and response p_resp
\* (lines 494-525).
PlayerEntry(m, p_resp, guild_name) ==
    LET name_guess == Strip(m.playerName)
    IN  [playerId |-> Strip(m.playerId),
         name |-> Strip(IF p_resp.name # "" THEN p_resp.name ELSE name_guess),
         ally |-> _parse_allycode(p_resp),
         level |-> IF p_resp.level = <<>> \/ p_resp.level[1] = 0
                   THEN "" ELSE ToString(p_resp.level[1]),
         gp |-> m.galacticPower,
         role |-> map_member_level(m.memberLevel),
         gac |-> _parse_player_rating(p_resp),
         roster |-> p_resp.rosterUnit,
         guild_name |-> guild_name]

AtMember == pc = "members" /\ m_idx <= Len(members_arr)

\* Variant: a member without playerId fails the attempt of its guild.
MemberWithoutId_FailsGuild ==
    /\ AtMember
    /\ members_arr[m_idx].dict
    /\ Strip(members_arr[m_idx].playerId) = ""
    /\ AttemptFailed
    /\ UNCHANGED <<storeVars, log>>

\* Lines 498-500: a member without playerId is skipped.
MemberWithoutId ==
    /\ AtMember
    /\ members_arr[m_idx].dict
    /\ Strip(members_arr[m_idx].playerId) = ""
    /\ m_idx' = m_idx + 1
    /\ UNCHANGED <<storeVars, envVars, sideVars, histVars, log, pc, result, readVars, i, try,
                   players_data, pg_players_data, k_idx, accVars>>

\* Lines 503-507: the player lookup raised after its retries; p_resp = {}.
PlayerLookupExhausted ==
    /\ AtMember
    /\ members_arr[m_idx].dict
    /\ Strip(members_arr[m_idx].playerId) \in ExhaustedPlayers
    /\ pg_players_data' =
          DictPut(pg_players_data, Strip(members_arr[m_idx].playerId),
                  PlayerEntry(members_arr[m_idx], EmptyPlayer, CurGuildName))
    /\ log' = Append(log, Lookup("fetch_player_by_id", Strip(members_arr[m_idx].playerId)))
    /\ m_idx' = m_idx + 1
    /\ UNCHANGED <<storeVars, envVars, sideVars, histVars, pc, result, readVars, i, try,
                   players_data, k_idx, accVars>>

\* Lines 503-525: the player lookup answered with an object.
PlayerLookupOk ==
    /\ AtMember
    /\ members_arr[m_idx].dict
    /\ LET pid == Strip(members_arr[m_idx].playerId)
       IN  /\ pid # ""
           /\ pid \notin ExhaustedPlayers
           /\ RemotePlayer(pid).dict
           /\ pg_players_data' =
                 DictPut(pg_players_data, pid,
                         PlayerEntry(members_arr[m_idx], RemotePlayer(pid), CurGuildName))
           /\ log' = Append(log, Lookup("fetch_player_by_id", pid))
    /\ m_idx' = m_idx + 1
    /\ UNCHANGED <<storeVars, envVars, sideVars, histVars, pc, result, readVars, i, try,
                   players_data, k_idx, accVars>>

\* Lines 494 and 509: m.get or p_resp.get on a value that is no object raises
\* out of process_guild, into the retry loop of run().
MemberRaises ==
    /\ AtMember
    /\ \/ ~members_arr[m_idx].dict
       \/ LET pid == Strip(members_arr[m_idx].playerId)
          IN  pid # "" /\ pid \notin ExhaustedPlayers /\ ~RemotePlayer(pid).dict
    /\ AttemptFailed
    /\ log' = IF members_arr[m_idx].dict
              THEN Append(log, Lookup("fetch_player_by_id",
                                      Strip(members_arr[m_idx].playerId)))
              ELSE log
    /\ UNCHANGED storeVars

AfterMembers == pc = "members" /\ m_idx > Len(members_arr)

\* Lines 527 and 615-616: process_guild returned no player; continue.
GuildWithoutPlayers ==
    /\ AfterMembers
    /\ pg_players_data = <<>>
    /\ players_data' = <<>>
    /\ pc' = "guild_loop"
    /\ i' = i + 1
    /\ UNCHANGED <<storeVars, envVars, sideVars, histVars, log, result, readVars, try, m_idx,
                   pg_players_data, k_idx, accVars>>

\* Lines 618-634: the guild's rows are deleted from the two row lists and the
\* indices are rebuilt. (\E over a one-element set names a value, as LET
\* does, and has it computed once.)
DeleteGuild ==
    /\ AfterMembers
    /\ pg_players_data # <<>>
    /\ \E guild_name \in {pg_players_data[1].v.guild_name} :
       \E idx_gn_players \in {Get(ColMap(p_headers), "guild name")} :
       \E idx_pid \in {Get(ColMap(p_headers), "player id")} :
       \E idx_pu_guild \in {Get(ColMap(pu_headers), "guild name")} :
       \E idx_pu_pname \in {Get(ColMap(pu_headers), "player name")} :
       \E players_kept \in
              {IF guild_name # "" /\ idx_gn_players # 0
               THEN DeleteGuildRows(final_players_rows, idx_gn_players, guild_name)
               ELSE final_players_rows} :
       \E pu_kept \in
              {IF idx_pu_guild # 0
               THEN DeleteGuildRows(final_pu_rows, idx_pu_guild, guild_name)
               ELSE final_pu_rows} :
           /\ processed_guild_names' = processed_guild_names \cup {guild_name}
           /\ final_players_rows' = players_kept
           /\ final_pu_rows' = pu_kept
           /\ players_index_by_pid' =
                 rebuild_players_index_by_pid(players_kept, idx_pid)
           /\ current_by_guild_player' =
                 rebuild_pu_index_by_guild_name(pu_kept, idx_pu_guild, idx_pu_pname)
    /\ players_data' = pg_players_data
    /\ pc' = "reinsert"
    /\ k_idx' = 1
    /\ UNCHANGED <<storeVars, envVars, sideVars, histVars, log, result, readVars, i, try, m_idx,
                   pg_players_data, skills_matrix, processed>>

\* ------------------------------------------------ run(): the reinsertion
AtPlayer == pc = "reinsert" /\ k_idx <= Len(players_data)

\* guild_name of line 618.
guild_name_618 == players_data[1].v.guild_name

\* Line 689: roster_to_unit_values raises on a roster entry that is no
\* object; nothing in run() catches it.
ReinsertRaises ==
    /\ AtPlayer
    /\ RosterRaises(players_data[k_idx].v.roster)
    /\ pc' = "done"
    /\ result' = "raised AttributeError"
    /\ UNCHANGED <<storeVars, envVars, sideVars, histVars, log, readVars, loopVars, accVars>>

\* Lines 637-727: one player of the guild is upserted into the Players and
\* Player_Units row lists and into the skills matrix.
ReinsertPlayer ==
    /\ AtPlayer
    /\ ~RosterRaises(players_data[k_idx].v.roster)
    /\ LET pid == players_data[k_idx].k
           pdata == players_data[k_idx].v
           guild_name == guild_name_618
           idx_row == Get(players_index_by_pid, pid)
           found == idx_row # 0 /\ idx_row <= Len(final_players_rows)
           merged == PlayersRow(IF found THEN final_players_rows[idx_row] ELSE <<>>,
                                p_headers, pdata, guild_name)
           key == PuKey(guild_name, Lower(pdata.name))
           idx_row_pu == Get(current_by_guild_player, key)
           found_pu == idx_row_pu # 0 /\ idx_row_pu <= Len(final_pu_rows)
           merged_pu == PlayerUnitsRow(IF found_pu THEN final_pu_rows[idx_row_pu] ELSE <<>>,
                                       pu_headers, unit_catalog, pdata, guild_name)
           rowdict == IF DictHas(skills_matrix, <<guild_name, pdata.name>>)
                      THEN DictGet(skills_matrix, <<guild_name, pdata.name>>)
                      ELSE EmptyDict
       IN  /\ final_players_rows' =
                 IF found THEN [final_players_rows EXCEPT ![idx_row] = merged]
                 ELSE Append(final_players_rows, merged)
           /\ players_index_by_pid' =
                 IF found THEN players_index_by_pid
                 ELSE (pid :> (Len(final_players_rows) + 1)) @@ players_index_by_pid
           /\ final_pu_rows' =
                 IF found_pu THEN [final_pu_rows EXCEPT ![idx_row_pu] = merged_pu]
                 ELSE Append(final_pu_rows, merged_pu)
           /\ current_by_guild_player' =
                 IF found_pu THEN current_by_guild_player
                 ELSE (key :> (Len(final_pu_rows) + 1)) @@ current_by_guild_player
           /\ skills_matrix' =
                 IF skill_id_to_header # EmptyDict
                 THEN DictPut(skills_matrix, <<guild_name, pdata.name>>,
                              SkillsOfRoster(rowdict, pdata.roster, skill_id_to_header))
                 ELSE skills_matrix
    /\ k_idx' = k_idx + 1
    /\ UNCHANGED <<storeVars, envVars, sideVars, histVars, log, pc, result, readVars, i, try,
                   players_data, m_idx, pg_players_data, processed_guild_names,
                   processed>>

\* Line 729: the guild is counted and the loop goes on.
GuildDone ==
    /\ pc = "reinsert"
    /\ k_idx > Len(players_data)
    /\ processed' = processed + 1
    /\ pc' = "guild_loop"
    /\ i' = i + 1
    /\ UNCHANGED <<storeVars, envVars, sideVars, histVars, log, result, readVars, try, players_data,
                   m_idx, pg_players_data, k_idx, final_players_rows, final_pu_rows,
                   players_index_by_pid, current_by_guild_player, skills_matrix,
                   processed_guild_names>>

\* ---------------------------------------------- run(): the final writes
LoopEnd ==
    /\ pc = "guild_loop"
    /\ i > Len(g_rows)
    /\ pc' = "write_players"
    /\ UNCHANGED <<storeVars, envVars, sideVars, histVars, log, result, readVars, loopVars, accVars>>

\* Lines 732-733
WritePlayers ==
    /\ pc = "write_players"
    /\ players' = IF final_players_rows # players_existing_rows
                  THEN write_table_body(players, p_headers, final_players_rows)
                  ELSE players
    /\ log' = IF final_players_rows # players_existing_rows
              THEN Append(log, StoreCall("write", "Players")) ELSE log
    /\ pc' = "write_pu"
    /\ UNCHANGED <<guilds, pu, ps, catalog, envVars, sideVars, histVars, result, readVars,
                   loopVars, accVars>>

\* Lines 734-735
WritePlayerUnits ==
    /\ pc = "write_pu"
    /\ pu' = IF final_pu_rows # pu_existing_rows
             THEN write_table_body(pu, pu.headers, final_pu_rows)
             ELSE pu
    /\ log' = IF final_pu_rows # pu_existing_rows
              THEN log \o <<StoreCall("read", "Player_Units"),
                            StoreCall("write", "Player_Units")>>
              ELSE log
    /\ pc' = "write_ps"
    /\ UNCHANGED <<guilds, players, ps, catalog, envVars, sideVars, histVars, result, readVars,
                   loopVars, accVars>>

\* Variant: the rows of the processed guilds are not dropped before the
\* recomputed rows are added.
MergedMatrix_KeepAll == PutAll(ps_matrix_exist, skills_matrix)

\* ps_matrix_exist after the selective merge (lines 739-746).
MergedMatrix == PutAll(DropGuilds(ps_matrix_exist, processed_guild_names), skills_matrix)

\* Lines 737-763
WritePlayerSkills ==
    /\ pc = "write_ps"
    /\ \E merged_matrix \in {MergedMatrix} :
       \E skill_headers_merged \in {SortedHeaders(SkillsInUse(merged_matrix))} :
           /\ ps' = write_ps_matrix(merged_matrix, skill_headers_merged)
           /\ result' = "ok: guilds=" \o ToString(processed)
                        \o ", players_upserted~=" \o ToString(Len(final_players_rows))
                        \o ", player_units_rows=" \o ToString(Len(final_pu_rows))
                        \o ", skill_matrix_rows=" \o ToString(Len(merged_matrix))
                        \o ", skill_cols=" \o ToString(Len(skill_headers_merged))
           /\ log' = log \o <<StoreCall("write_header", "Player_Skills")>>
                         \o (IF merged_matrix # <<>>
                             THEN <<StoreCall("write", "Player_Skills")>> ELSE <<>>)
    /\ pc' = "done"
    /\ UNCHANGED <<guilds, players, pu, catalog, envVars, sideVars, histVars, readVars,
                   loopVars, accVars>>

Next ==
    \/ PreflightFails
    \/ RunStart
    \/ GuildSkip
    \/ GuildBegin
    \/ FetchGuildFails
    \/ FetchGuildOk
    \/ MemberWithoutId
    \/ PlayerLookupExhausted
    \/ PlayerLookupOk
    \/ MemberRaises
    \/ GuildWithoutPlayers
    \/ DeleteGuild
    \/ ReinsertRaises
    \/ ReinsertPlayer
    \/ GuildDone
    \/ LoopEnd
    \/ WritePlayers
    \/ WritePlayerUnits
    \/ WritePlayerSkills

Spec == Init /\ [][Next]_vars

\* A run is under way.
Running == pc \notin {"idle", "done"}

\* A step of a run that has begun.
RunStep == Running /\ Next

\* The runs followed to their end: on the seeded workbook, with the skill
\* catalog, guild g1 reporting at most MaxLiveMembers members and guild g2
\* reporting p3.
InitLive ==
    /\ Init
    /\ pre = StoreSeeded
    /\ catalog.zetas # <<>>
    /\ Len(remote["g1"].member) <= MaxLiveMembers
    /\ Len(remote["g2"].member) = 1
    /\ remote["g2"].member[1].playerId = "p3"

\* run() is one sequential thread: every call it makes returns or raises and
\* every sleep of the retry loops ends, so the step a run can take is taken.
\* Nothing makes anybody start a run.
SpecLive == InitLive /\ [][Next]_vars /\ WF_vars(RunStep)

\* ===================================================================
\* The game data client (http.py, comlink.py)
\* ===================================================================
\* run() is not under way: the variables of run() at rest on an empty
\* workbook, for the behaviours that follow one call of a helper.
runVars == <<storeVars, envVars, histVars, log, pc, result, readVars, loopVars, accVars>>

RunAtRest ==
    /\ guilds = StoreFresh.guilds
    /\ players = StoreFresh.players
    /\ pu = StoreFresh.pu
    /\ ps = StoreFresh.ps
    /\ pre = StoreFresh
    /\ catalog = [characters |-> <<>>, ships |-> <<>>, zetas |-> <<>>, omicrons |-> <<>>]
    /\ remote = [g \in {} |-> g]
    /\ guildFails = [g \in {} |-> 0]
    /\ FILTER_GUILD_IDS = {}
    /\ preflight_ok = TRUE
    /\ log = <<>>
    /\ clock = 0
    /\ runs = 0
    /\ pc = "idle"
    /\ result = ""
    /\ g_rows = <<>>
    /\ p_headers = <<>>
    /\ pu_headers = <<>>
    /\ unit_catalog = <<>>
    /\ skill_id_to_header = EmptyDict
    /\ players_existing_rows = <<>>
    /\ pu_existing_rows = <<>>
    /\ ps_matrix_exist = <<>>
    /\ i = 1
    /\ try = 0
    /\ players_data = <<>>
    /\ m_idx = 1
    /\ pg_players_data = <<>>
    /\ k_idx = 1
    /\ final_players_rows = <<>>
    /\ final_pu_rows = <<>>
    /\ players_index_by_pid = EmptyDict
    /\ current_by_guild_player = EmptyDict
    /\ skills_matrix = <<>>
    /\ processed_guild_names = {}
    /\ processed = 0

\* post_json_retry's default for attempts (http.py line 77).
default_attempts == 5

\* The attempts fetch_guild and fetch_player_by_id pass (comlink.py 83, 101).
fetch_attempts == 8

\* A call of post_json_retry at its entry: the loops are about to start.
\* a, b: the attempt and the body variant the next request belongs to;
\* sent: the requests made, in order; slept: for each sleep, how many times
\* the delay had been multiplied by 1.6; last_exc: the request whose error
\* is held (0: none); answer: the request whose response was returned;
\* error: what the call raised.
post_json_retry(caller, path, variants, n) ==
    [pc |-> "loop", caller |-> caller, path |-> path, variants |-> variants,
     attempts |-> n, a |-> 1, b |-> 1, grown |-> 0, sent |-> <<>>,
     slept |-> <<>>, last_exc |-> 0, answer |-> 0, error |-> "none"]

\* comlink.py lines 55-83 and 86-101: one body, attempts=8.
fetch_guild == post_json_retry("fetch_guild", "/guild", 1, fetch_attempts)

fetch_player_by_id == post_json_retry("fetch_player_by_id", "/player", 1, fetch_attempts)

HttpCalls ==
    {post_json_retry("caller", "/data", v, n) :
        v \in 1..MaxVariants, n \in (0..MaxAttempts) \cup {default_attempts}}
        \cup {fetch_guild, fetch_player_by_id}

InitHttp ==
    /\ RunAtRest
    /\ call = NoCall
    /\ bot = NoSync
    /\ http \in HttpCalls

\* http.py lines 98-99: a request is due and _request returns a response.
RequestOk ==
    /\ http.pc = "loop"
    /\ http.a <= http.attempts
    /\ http' = [http EXCEPT
                  !.sent = Append(@, [attempt |-> http.a, variant |-> http.b, ok |-> TRUE]),
                  !.answer = Len(http.sent) + 1,
                  !.pc = "returned"]
    /\ UNCHANGED <<runVars, call, bot>>

\* Variant: a failed variant is tried again before the next one, once more
\* than the loops allow.
AfterFailure_Again(h) ==
    IF h.b <= h.variants
    THEN [h EXCEPT !.b = @ + 1]
    ELSE [h EXCEPT !.b = 1, !.a = @ + 1, !.grown = @ + 1]

\* The position of the loops after a failed request (lines 96-97, 104).
AfterFailure(h) ==
    IF h.b < h.variants
    THEN [h EXCEPT !.b = @ + 1]
    ELSE [h EXCEPT !.b = 1, !.a = @ + 1, !.grown = @ + 1]

\* http.py lines 100-103: _request raises; the error is kept, the call sleeps
\* and goes on with the next variant or the next attempt.
RequestFails ==
    /\ http.pc = "loop"
    /\ http.a <= http.attempts
    /\ http' = AfterFailure(
                 [http EXCEPT
                    !.sent = Append(@, [attempt |-> http.a, variant |-> http.b, ok |-> FALSE]),
                    !.last_exc = Len(http.sent) + 1,
                    !.slept = Append(@, http.grown)])
    /\ UNCHANGED <<runVars, call, bot>>

\* http.py lines 105-106: the loops are over; the last error is raised (an
\* AssertionError when no request was made).
Exhausted ==
    /\ http.pc = "loop"
    /\ http.a > http.attempts
    /\ http' = [http EXCEPT
                  !.pc = "raised",
                  !.error = IF http.last_exc = 0 THEN "AssertionError"
                            ELSE "error of request " \o ToString(http.last_exc)]
    /\ UNCHANGED <<runVars, call, bot>>

NextHttp ==
    \/ RequestOk
    \/ RequestFails
    \/ Exhausted

SpecHttp == InitHttp /\ [][NextHttp]_vars

\* ===================================================================
\* Calls of the helpers of sync_guilds.py, one call per behaviour
\* ===================================================================
\* call holds the helper's name, its arguments and, once it has returned,
\* its result in out (<<>> before).
Sequences(S, n) == UNION {[1..k -> S] : k \in 0..n}

\* ---- Player_Skills of one player (run(), lines 703-758)
\* The skill catalog of these calls: z1 and z2 are catalog skills. A call
\* is made with this catalog or with the empty one (guard of line 703).
SkillHeaders == ("z1" :> "Vader|Z") @@ ("z2" :> "Vader|O")

\* The tiers a skill is observed with.
Tiers == {0, 3, 5, 7}

\* Rosters of one or two units observing z1 with the tiers of obs, in order,
\* split over the units at position cut; the second unit also carries a
\* skill that is not in the catalog and one observation of z2.
ObservingRoster(obs, cut) ==
    LET sk(t) == Skill("z1", t)
        first == [j \in 1..cut |-> sk(obs[j])]
        second == [j \in 1..(Len(obs) - cut) |-> sk(obs[cut + j])]
    IN  <<Unit("VADER:SEVEN_STAR", <<7>>, first),
          Unit("YODA:SEVEN_STAR", <<5>>, <<Skill("zx", 8)>> \o second \o <<Skill("z2", 1)>>)>>

SkillCalls ==
    UNION {{[op |-> "player_skills", obs |-> obs, cut |-> cut,
              roster |-> ObservingRoster(obs, cut), id_to_header |-> h,
              out |-> <<>>] :
               cut \in 0..Len(obs), h \in {SkillHeaders, EmptyDict}} :
           obs \in Sequences(Tiers, MaxObs) \ {<<>>}}

\* The Player_Skills sheet a run writes for one player of one guild on an
\* empty sheet: rowdict of the roster (lines 703-727), merged (745-746),
\* headers in use (749-755), written (758).
PlayerSkillsOf(roster, id_to_header) ==
    LET rowdict == SkillsOfRoster(EmptyDict, roster, id_to_header)
        matrix == IF id_to_header # EmptyDict
                  THEN PutAll(<<>>, <<[k |-> <<"A", "Ann">>, v |-> rowdict]>>)
                  ELSE <<>>
    IN  write_ps_matrix(matrix, SortedHeaders(SkillsInUse(matrix)))

ApplyPlayerSkills ==
    /\ call.op = "player_skills"
    /\ call.out = <<>>
    /\ call' = [call EXCEPT !.out = <<PlayerSkillsOf(call.roster, call.id_to_header)>>]
    /\ UNCHANGED <<runVars, http, bot>>

\* ---- The Player_Units header over successive runs (lines 545-546, 734-735)
\* The unit catalog sheets of these calls. DARTHVADER carries the display
\* name of VADER in another letter case.
CharacterLists ==
    LET v == [base_id |-> "VADER", name |-> "Vader"]
        y == [base_id |-> "YODA", name |-> "Yoda"]
        w == [base_id |-> "DARTHVADER", name |-> "VADER"]
    IN  {<<>>, <<v>>, <<y>>, <<v, y>>, <<v, w>>}

ShipLists == {<<>>, <<[base_id |-> "FALCON", name |-> "Falcon"]>>}

UnitCatalogs ==
    {[characters |-> c, ships |-> sh, zetas |-> <<>>, omicrons |-> <<>>] :
        c \in CharacterLists, sh \in ShipLists}

\* The header rows Player_Units starts with: an empty sheet, the two key
\* columns, a sheet of an earlier run with an operator column, and a sheet
\* whose operator wrote the unit's name in lower case.
UnitHeaderRows ==
    {<<>>,
     PLAYER_UNITS_MIN_PREFIX,
     <<"Guild Name", "Player Name", "Notes", "Vader">>,
     <<"Notes", "vader">>}

\* ws_update is called by ensure_player_units_headers / _ensure_headers when
\* the sheet had no header row or a header was appended.
HeaderWritten(headers, after) == headers = <<>> \/ Len(after) > Len(headers)

UnitHeaderCalls ==
    {[op |-> "unit_headers", first |-> h, before |-> h, headers |-> h,
      todo |-> t, cat |-> <<>>, runs |-> 0, wrote |-> FALSE] :
        h \in UnitHeaderRows, t \in Sequences(UnitCatalogs, MaxHeaderRuns) \ {<<>>}}

\* One run, as far as the header row of Player_Units goes: the catalog is
\* read, the header ensured (line 546) and the body written under the
\* header the sheet then has (line 735).
ApplyUnitHeaders ==
    /\ call.op = "unit_headers"
    /\ call.todo # <<>>
    /\ LET units == read_unit_catalog(Head(call.todo))
           ensured == ensure_player_units_headers(call.headers, UnitBaseIds(units),
                                                  BaseToName(units))
           sheet == write_table_body([headers |-> ensured, rows |-> <<>>], ensured,
                                     <<Pad(<<"A", "Ann">>, Len(ensured))>>)
       IN  call' = [call EXCEPT !.before = call.headers,
                                !.headers = sheet.headers,
                                !.cat = <<Head(call.todo)>>,
                                !.todo = Tail(call.todo),
                                !.runs = call.runs + 1,
                                !.wrote = HeaderWritten(call.headers, ensured)]
    /\ UNCHANGED <<runVars, http, bot>>

\* ---- The Player_Units row of one player (lines 545-546, 677-695)
\* A roster with one entry per unit of the catalog sheets, each with its own
\* relic tier, in the two orders.
FullRoster ==
    <<Unit("VADER:SEVEN_STAR", <<9>>, <<>>),
      Unit("DARTHVADER:SEVEN_STAR", <<3>>, <<>>),
      Unit("YODA:SEVEN_STAR", <<5>>, <<>>),
      Unit("FALCON:SEVEN_STAR", <<>>, <<>>)>>

Reverse(s) == [j \in 1..Len(s) |-> s[Len(s) + 1 - j]]

UnitRowCalls ==
    {[op |-> "unit_row", headers |-> h, cat |-> c, roster |-> r, out |-> <<>>] :
        h \in UnitHeaderRows, c \in UnitCatalogs, r \in {FullRoster, Reverse(FullRoster)}}

\* The header is ensured for the catalog and the player's row is built on a
\* new row of guild "A".
ApplyUnitRow ==
    /\ call.op = "unit_row"
    /\ call.out = <<>>
    /\ LET units == read_unit_catalog(call.cat)
           ensured == ensure_player_units_headers(call.headers, UnitBaseIds(units),
                                                  BaseToName(units))
           merged == PlayerUnitsRow(<<>>, ensured, units,
                                    [name |-> "Ann", roster |-> call.roster], "A")
       IN  call' = [call EXCEPT !.out = <<[headers |-> ensured, row |-> merged]>>]
    /\ UNCHANGED <<runVars, http, bot>>

\* ---- _ensure_headers, called by successive runs (lines 236-255, 541-542)
\* A synonym table keyed by the required name.
KeyedSynonyms == ("Guild GP" :> <<"GP", "Guild GP">>)

\* required and synonyms of a call.
EnsureArguments ==
    {[required |-> GUILDS_REQUIRED, synonyms |-> GUILDS_HEADER_SYNONYMS],
     [required |-> GUILDS_REQUIRED, synonyms |-> KeyedSynonyms],
     [required |-> PLAYERS_REQUIRED, synonyms |-> NoSynonyms]}

\* The header rows the sheet starts with: none, the required ones, the
\* required ones in another order and letter case, rows with operator
\* columns and with the short name of the galactic power column.
EnsureHeaderRows ==
    {<<>>,
     GUILDS_REQUIRED,
     PLAYERS_REQUIRED,
     <<"Notes">>,
     <<"Last Update", "guild gp", "Members", "Notes", "Guild Name", "guild id",
       "Last Raid Score", "Last Raid Id">>,
     <<"Guild Id", "Guild Name", "Notes", "Members", "GP", "Last Raid Id",
       "Last Raid Score", "Last Update">>,
     <<"Notes", "Player Id", "gp">>}

EnsureCalls ==
    {[op |-> "ensure_headers", required |-> a.required, synonyms |-> a.synonyms,
      first |-> h, before |-> h, headers |-> h, runs |-> 0, wrote |-> FALSE] :
        a \in EnsureArguments, h \in EnsureHeaderRows}

\* One call of _ensure_headers on the header row the sheet has.
ApplyEnsureHeaders ==
    /\ call.op = "ensure_headers"
    /\ call.runs < MaxHeaderRuns
    /\ LET after == _ensure_headers(call.headers, call.required, call.synonyms)
       IN  call' = [call EXCEPT !.before = call.headers,
                                !.headers = after,
                                !.runs = call.runs + 1,
                                !.wrote = HeaderWritten(call.headers, after)]
    /\ UNCHANGED <<runVars, http, bot>>

\* ---- roster_to_unit_values (lines 348-362)
\* relic.currentTier of a roster entry: absent, or a tier.
RosterTiers == {<<>>} \cup {<<t>> : t \in 0..MaxTier}

\* A roster of a character and a ship, each with its tier, under a catalog
\* that may or may not list them.
UnitValueCalls ==
    {[op |-> "unit_values", cat |-> c,
      roster |-> <<Unit("VADER:SEVEN_STAR", t1, <<>>),
                   Unit("FALCON:SEVEN_STAR", t2, <<>>)>>,
      out |-> <<>>] :
        c \in {u \in UnitCatalogs : Len(u.characters) < 2},
        t1 \in RosterTiers, t2 \in RosterTiers}

ApplyUnitValues_Call ==
    /\ call.op = "unit_values"
    /\ call.out = <<>>
    /\ call' = [call EXCEPT !.out =
                   <<roster_to_unit_values(call.roster,
                                           IsShip(read_unit_catalog(call.cat)))>>]
    /\ UNCHANGED <<runVars, http, bot>>

\* ---- _parse_player_rating (lines 173-177)
\* playerRating.playerRankStatus of a player payload: leagueId absent ("")
\* or a league, divisionId absent, a division of DIV_MAP or another number.
RatingCalls ==
    {[op |-> "player_rating", leagueId |-> l, divisionId |-> d, out |-> <<>>] :
        l \in {"", "KYBER", "CARBONITE"},
        d \in {<<>>, <<7>>} \cup {<<c>> : c \in DOMAIN DIV_MAP}}

ApplyParsePlayerRating ==
    /\ call.op = "player_rating"
    /\ call.out = <<>>
    /\ call' = [call EXCEPT !.out =
                   <<_parse_player_rating([leagueId |-> call.leagueId,
                                           divisionId |-> call.divisionId])>>]
    /\ UNCHANGED <<runVars, http, bot>>

\* ---- map_member_level (lines 194-199)
\* memberLevel of a member entry: absent, or a number.
LevelCalls ==
    {[op |-> "member_level", val |-> v, out |-> <<>>] :
        v \in {<<>>} \cup {<<c>> : c \in 0..MaxLevel}}

ApplyMapMemberLevel ==
    /\ call.op = "member_level"
    /\ call.out = <<>>
    /\ call' = [call EXCEPT !.out = <<map_member_level(call.val)>>]
    /\ UNCHANGED <<runVars, http, bot>>

\* ---- read_unit_catalog, read_skill_catalog (lines 283-325, 365-410)
\* A catalog sheet of the workbook: missing (ss.worksheet raises),
\* unreadable (get_all_values raises) or ok with its values.
CatalogSheet(state, headers, rows) == [state |-> state, headers |-> headers, rows |-> rows]

\* cm.get(name) of {v.lower(): i for i, v in enumerate(h)}: 1-based, 0 for None.
CatalogCol(headers, name) ==
    IF \E j \in 1..Len(headers) : Lower(Strip(headers[j])) = name
    THEN CHOOSE j \in 1..Len(headers) :
             /\ Lower(Strip(headers[j])) = name
             /\ \A j2 \in (j + 1)..Len(headers) : Lower(Strip(headers[j2])) # name
    ELSE 0

\* r[idx] if idx < len(r) else ""
CatalogCell(r, idx) == IF idx # 0 /\ idx <= Len(r) THEN r[idx] ELSE ""

\* Lines 296-304, 310-318: the rows of a unit sheet read by their columns;
\* none when a column is not there.
UnitSheetEntries(sheet) ==
    LET idx_base == CatalogCol(sheet.headers, "base_id")
        idx_name == CatalogCol(sheet.headers, "name")
    IN  IF idx_base = 0 \/ idx_name = 0 THEN <<>>
        ELSE [j \in 1..Len(sheet.rows) |->
                 [base_id |-> CatalogCell(sheet.rows[j], idx_base),
                  name |-> CatalogCell(sheet.rows[j], idx_name)]]

\* Lines 385-402: the rows of a skill sheet read by their columns; none when
\* the skillid column is not there.
SkillSheetEntries(sheet) ==
    LET i_sid == CatalogCol(sheet.headers, "skillid")
        i_pref == CatalogCol(sheet.headers, "charactername|skill name")
        i_sname == CatalogCol(sheet.headers, "skill name")
    IN  IF i_sid = 0 THEN <<>>
        ELSE [j \in 1..Len(sheet.rows) |->
                 [skillid |-> CatalogCell(sheet.rows[j], i_sid),
                  pref |-> CatalogCell(sheet.rows[j], i_pref),
                  sname |-> CatalogCell(sheet.rows[j], i_sname)]]

\* read_unit_catalog over the sheets: each sheet is read inside a try
\* (lines 295-306, 309-320), so a sheet that raises gives no entries.
ReadUnitCatalog(characters, ships) ==
    LET of(sheet) == IF sheet.state = "ok" THEN UnitSheetEntries(sheet) ELSE <<>>
    IN  [raised |-> FALSE,
         value |-> read_unit_catalog([characters |-> of(characters), ships |-> of(ships)])]

\* read_skill_catalog over the sheets: _ingest catches ss.worksheet only
\* (lines 380-383); _get_all (line 384) is outside the try.
ReadSkillCatalog(zetas, omicrons) ==
    LET of(sheet) == IF sheet.state = "ok" THEN SkillSheetEntries(sheet) ELSE <<>>
    IN  IF zetas.state = "unreadable" \/ omicrons.state = "unreadable"
        THEN [raised |-> TRUE, value |-> EmptyDict]
        ELSE [raised |-> FALSE,
              value |-> read_skill_catalog([zetas |-> of(zetas), omicrons |-> of(omicrons)])]

NoSheet(state) == CatalogSheet(state, <<>>, <<>>)

\* Characters: a good row, a row without key, one without name, one whose key
\* holds the exclusion substring; or the sheet lacks the columns, is empty,
\* missing or unreadable.
CharacterSheets ==
    {CatalogSheet("ok", <<"base_id", "name">>,
                  <<<<"VADER", "Vader">>, <<"", "Yoda">>, <<"YODA", " ">>,
                    <<"EVENT_VADER", "Vader">>>>),
     CatalogSheet("ok", <<"id", "label">>, <<<<"VADER", "Vader">>>>),
     NoSheet("ok"), NoSheet("missing"), NoSheet("unreadable")}

\* Ships: the columns in the other order, a short row, an excluded key in
\* lower case.
ShipSheets ==
    {CatalogSheet("ok", <<"name", "base_id">>,
                  <<<<"Falcon", "FALCON">>, <<"Yoda">>, <<"Yoda", "event_falcon">>>>),
     CatalogSheet("ok", <<"name">>, <<<<"Falcon">>>>),
     NoSheet("missing"), NoSheet("unreadable")}

ZetaSheets ==
    {CatalogSheet("ok", <<"skillid", "charactername|skill name", "skill name">>,
                  <<<<"z1", "Vader|Z", "Z">>, <<"", "Vader|O", "O">>, <<"z2", "", "">>,
                    <<"event_z9", "Vader|O", "O">>, <<"z3", "", "Yoda">>>>),
     CatalogSheet("ok", <<"skill name">>, <<<<"Z">>>>),
     NoSheet("ok"), NoSheet("missing"), NoSheet("unreadable")}

OmicronSheets ==
    {CatalogSheet("ok", <<"skillid", "skill name">>,
                  <<<<"o1", "Vader|O">>, <<"z1", "Falcon">>>>),
     NoSheet("missing"), NoSheet("unreadable")}

CatalogCalls ==
    {[op |-> "unit_catalog", first |-> a, second |-> b, out |-> <<>>] :
        a \in CharacterSheets, b \in ShipSheets}
    \cup {[op |-> "skill_catalog", first |-> a, second |-> b, out |-> <<>>] :
        a \in ZetaSheets, b \in OmicronSheets}

ApplyReadUnitCatalog ==
    /\ call.op = "unit_catalog"
    /\ call.out = <<>>
    /\ call' = [call EXCEPT !.out = <<ReadUnitCatalog(call.first, call.second)>>]
    /\ UNCHANGED <<runVars, http, bot>>

ApplyReadSkillCatalog ==
    /\ call.op = "skill_catalog"
    /\ call.out = <<>>
    /\ call' = [call EXCEPT !.out = <<ReadSkillCatalog(call.first, call.second)>>]
    /\ UNCHANGED <<runVars, http, bot>>

\* ---- run_sync_guilds_once (bot/services/sync_runner.py lines 3-6)
\* The parameters in the signature of run (sync_guilds.py line 530: def run()).
run_parameters == {}

\* Python binds a call's keyword arguments to the parameters of the callee;
\* a keyword that names no parameter raises TypeError before the body runs.
Binds(parameters, keywords) == keywords \subseteq parameters

\* asyncio.to_thread(mod_sync_guilds.run, filter_guild_ids={guild_id}): the
\* guilds the run is restricted to when the call binds, TypeError otherwise.
run_sync_guilds_once(guild_id) ==
    IF Binds(run_parameters, {"filter_guild_ids"})
    THEN [raised |-> "", filter |-> {guild_id}]
    ELSE [raised |-> "TypeError", filter |-> {}]

SyncOnceCalls == {[op |-> "sync_once", guild_id |-> g, out |-> <<>>] : g \in {"g1", "g2"}}

ApplyRunSyncGuildsOnce ==
    /\ call.op = "sync_once"
    /\ call.out = <<>>
    /\ call' = [call EXCEPT !.out = <<run_sync_guilds_once(call.guild_id)>>]
    /\ UNCHANGED <<runVars, http, bot>>

\* ---- upsert_guild_row (lines 266-280)
\* The Guilds sheets of the calls: the operator column Notes in the middle
\* or at the end, the GP column under either of its names or under both.
GuildSheets ==
    {[headers |-> <<"Guild Id", "Guild Name", "Notes", "Members", "GP",
                    "Last Raid Id", "Last Raid Score", "Last Update", "Guild GP">>,
      rows |-> <<<<"g1", "A", "keep1", "2", "4000", "{\"campaignId\":\"raid2\"}",
                   "55", "t9", "">>,
                 <<"g2", "B", "keep2", "1", "900", "", "0", "t9", "700">>>>],
     [headers |-> GUILDS_REQUIRED \o <<"Notes">>,
      rows |-> <<<<"g1", "A", "2", "4000", "{\"campaignId\":\"raid2\"}", "55", "t9",
                   "keep1">>,
                 <<"g2", "B", "1", "900", "", "0", "t9", "keep2">>>>]}

\* newvals of a call: a name that may be blank, counts that may be 0, a GP
\* that may be None, a raid id that may be blank.
GuildRowVals ==
    [guild_name : {"", " ", "C"},
     members : {0, 2},
     gp : {<<>>, <<0>>, <<5000>>},
     last_raid_id : {"", "{\"campaignId\":\"raid1\"}"},
     last_raid_score : {0, 77}]

GuildRowCalls ==
    {[op |-> "guild_row", sheet |-> sh, idx |-> r, newvals |-> nv, out |-> <<>>] :
        sh \in GuildSheets, r \in 1..2, nv \in GuildRowVals}

\* The call of process_guild (line 490): the row goes to its position by
\* ws_update(ws, "r:r", [row]).
ApplyUpsertGuildRow ==
    /\ call.op = "guild_row"
    /\ call.out = <<>>
    /\ call' = [call EXCEPT !.out =
                  <<[call.sheet EXCEPT !.rows[call.idx] =
                        upsert_guild_row(call.sheet.headers, ColMap(call.sheet.headers),
                                         call.sheet.rows[call.idx], call.newvals,
                                         now_ts)]>>]
    /\ UNCHANGED <<runVars, http, bot>>

\* ---- The bulk writes, store call by store call (lines 201-208, 438-457)
\* A worksheet is a grid: a sequence of rows of one width, the header row
\* first.
GridWidth(grid) == IF grid = <<>> THEN 0 ELSE Len(grid[1])

\* ws.resize(n_rows, n_cols): cells inside the new size stay, new cells are
\* empty.
resize(grid, n_rows, n_cols) ==
    [j \in 1..n_rows |->
        [c \in 1..n_cols |->
            IF j <= Len(grid) /\ c <= GridWidth(grid) THEN grid[j][c] ELSE ""]]

\* ws_update(ws, range, values) with the range starting at row r0, column A:
\* the cells given are written, every other cell stays.
ws_update(grid, r0, values) ==
    [j \in 1..Len(grid) |->
        [c \in 1..GridWidth(grid) |->
            IF j >= r0 /\ j < r0 + Len(values) /\ c <= Len(values[j - r0 + 1])
            THEN values[j - r0 + 1][c]
            ELSE grid[j][c]]]

ResizeCall(n_rows, n_cols) == [f |-> "resize", n_rows |-> n_rows, n_cols |-> n_cols]

UpdateCall(r0, values) == [f |-> "update", r0 |-> r0, values |-> values]

\* The store calls of write_table_body(ws, headers, rows), in order.
TableBodyCalls(headers, rows) ==
    LET cols == IF headers # <<>> THEN Len(headers) ELSE 1
    IN  <<ResizeCall(Len(rows) + 1, cols)>>
        \o (IF rows # <<>> THEN <<UpdateCall(2, rows)>> ELSE <<ResizeCall(1, cols)>>)

\* The store calls of write_ps_matrix(ws, matrix_dict, skill_headers), in
\* order, given the header row and the data rows it builds.
PsMatrixCalls(headers, data_rows) ==
    <<ResizeCall(1, Len(headers)), UpdateCall(1, <<headers>>)>>
    \o (IF data_rows # <<>>
        THEN <<ResizeCall(Len(data_rows) + 1, Len(headers)), UpdateCall(2, data_rows),
               ResizeCall(Len(data_rows) + 1, Len(headers))>>
        ELSE <<ResizeCall(1, Len(headers))>>)

\* The sheets before the write: a header row with three, one or no data rows.
OldGrids ==
    {<<<<"Guild Name", "Player Name", "Vader">>, <<"A", "Ann", "R5">>,
       <<"A", "Bob", "R1">>, <<"B", "Zed", "R0">>>>,
     <<<<"Guild Name", "Player Name", "Vader">>, <<"A", "Ann", "R5">>>>,
     <<<<"Guild Name", "Player Name", "Vader">>>>}

\* The row lists written under that header row.
NewBodies ==
    {<<>>,
     <<<<"B", "Zed", "R7">>>>,
     <<<<"A", "Ann", "R9">>, <<"B", "Zed", "R7">>>>}

\* The matrices write_ps_matrix is given, with their headers in use.
NewMatrices ==
    {[matrix |-> <<>>, skill_headers |-> <<>>],
     [matrix |-> <<[k |-> <<"A", "Ann">>, v |-> ("Vader|Z" :> "7")]>>,
      skill_headers |-> <<"Vader|Z">>],
     [matrix |-> <<[k |-> <<"B", "Zed">>, v |-> ("Vader|O" :> "1")],
                   [k |-> <<"A", "Ann">>, v |-> ("Vader|Z" :> "7") @@ ("Vader|O" :> "3")]>>,
      skill_headers |-> <<"Vader|O", "Vader|Z">>]}

BulkWriteCalls ==
    {[op |-> "bulk_write", fn |-> "write_table_body", old |-> g, grid |-> g,
      headers |-> g[1], rows |-> b, todo |-> TableBodyCalls(g[1], b),
      status |-> "running"] : g \in OldGrids, b \in NewBodies}
    \cup
    {[op |-> "bulk_write", fn |-> "write_ps_matrix", old |-> g, grid |-> g,
      headers |-> write_ps_matrix(x.matrix, x.skill_headers).headers,
      rows |-> write_ps_matrix(x.matrix, x.skill_headers).rows,
      todo |-> PsMatrixCalls(write_ps_matrix(x.matrix, x.skill_headers).headers,
                             write_ps_matrix(x.matrix, x.skill_headers).rows),
      status |-> "running"] : g \in OldGrids, x \in NewMatrices}

\* The next store call of the write is made and answers.
StoreCallDone ==
    /\ call.op = "bulk_write"
    /\ call.status = "running"
    /\ LET c == Head(call.todo)
           after == IF c.f = "resize" THEN resize(call.grid, c.n_rows, c.n_cols)
                    ELSE ws_update(call.grid, c.r0, c.values)
       IN  call' = [call EXCEPT !.grid = after,
                                !.todo = Tail(call.todo),
                                !.status = IF Tail(call.todo) = <<>> THEN "returned"
                                           ELSE "running"]
    /\ UNCHANGED <<runVars, http, bot>>

\* The next store call of the write raises (quota, network): the exception
\* leaves the function and run(), which catch nothing here.
StoreCallFails ==
    /\ call.op = "bulk_write"
    /\ call.status = "running"
    /\ call' = [call EXCEPT !.status = "failed"]
    /\ UNCHANGED <<runVars, http, bot>>

\* ---- the calls
InitCalls ==
    /\ RunAtRest
    /\ http = NoRequest
    /\ bot = NoSync
    /\ \/ call \in SkillCalls
       \/ call \in UnitHeaderCalls
       \/ call \in UnitRowCalls
       \/ call \in EnsureCalls
       \/ call \in UnitValueCalls
       \/ call \in RatingCalls
       \/ call \in LevelCalls
       \/ call \in GuildRowCalls
       \/ call \in CatalogCalls
       \/ call \in SyncOnceCalls
       \/ call \in BulkWriteCalls

NextCalls ==
    \/ ApplyPlayerSkills
    \/ ApplyUnitHeaders
    \/ ApplyUnitRow
    \/ ApplyEnsureHeaders
    \/ ApplyUnitValues_Call
    \/ ApplyParsePlayerRating
    \/ ApplyMapMemberLevel
    \/ ApplyUpsertGuildRow
    \/ ApplyReadUnitCatalog
    \/ ApplyReadSkillCatalog
    \/ ApplyRunSyncGuildsOnce
    \/ StoreCallDone
    \/ StoreCallFails

SpecCalls == InitCalls /\ [][NextCalls]_vars

\* ===================================================================
\* SyncDataRunner.cmd_syncdata (bot/main_bot.py lines 671-727): the handlers
\* of the /syncdata commands as coroutines on one event loop. An action is
\* the code a handler runs between two awaits.
\* ===================================================================
SetPc(c, to) == [bot EXCEPT !.pc[c] = to]

\* Lines 689-692: the chat is not in ALLOWED_SYNC_CHAT_IDS.
cmd_syncdata_Unauthorized(c) ==
    /\ bot.pc[c] = "new"
    /\ bot' = SetPc(c, "reply_unauthorized")
    /\ UNCHANGED <<runVars, http, call>>

\* Lines 694-696: the lock is held; the 'already in progress' reply.
cmd_syncdata_Busy(c) ==
    /\ bot.pc[c] = "new"
    /\ bot.locked
    /\ bot' = SetPc(c, "reply_busy")
    /\ UNCHANGED <<runVars, http, call>>

\* Lines 694 and 698: the lock is free; await reply_text('Iniciando ...').
cmd_syncdata_Start(c) ==
    /\ bot.pc[c] = "new"
    /\ ~bot.locked
    /\ bot' = SetPc(c, "reply_start")
    /\ UNCHANGED <<runVars, http, call>>

\* Line 700, async with self._lock: asyncio.Lock.acquire takes a free lock
\* with no waiter at once.
LockAcquire(c) ==
    /\ bot.pc[c] = "reply_start"
    /\ ~bot.locked /\ bot.waiters = <<>>
    /\ bot' = [bot EXCEPT !.locked = TRUE, !.pc[c] = "spawn"]
    /\ UNCHANGED <<runVars, http, call>>

\* Line 700: the lock is held, or others wait for it: the handler joins the
\* waiters and is suspended.
LockWait(c) ==
    /\ bot.pc[c] = "reply_start"
    /\ bot.locked \/ bot.waiters # <<>>
    /\ bot' = [bot EXCEPT !.waiters = Append(@, c), !.waited = @ \cup {c},
                          !.pc[c] = "waiting"]
    /\ UNCHANGED <<runVars, http, call>>

\* Line 700: the waiter that release() woke leaves the queue and takes the
\* lock.
LockWoken(c) ==
    /\ bot.pc[c] = "waiting"
    /\ bot.woken = c
    /\ bot' = [bot EXCEPT !.locked = TRUE, !.woken = 0,
                          !.waiters = SelectSeq(@, LAMBDA w : w # c),
                          !.pc[c] = "spawn"]
    /\ UNCHANGED <<runVars, http, call>>

\* Lock.release(), at the exit of the async with block: the lock is free
\* and the first waiter is woken.
Released(b) ==
    [b EXCEPT !.locked = FALSE,
              !.woken = IF b.waiters = <<>> THEN 0 ELSE Head(b.waiters)]

\* Lines 703 and 681-683: python -m swgoh.processing.sync_data is started.
SubprocessStarts(c) ==
    /\ bot.pc[c] \in {"spawn", "spawn_script"}
    /\ bot' = [bot EXCEPT !.running = @ \cup {c}, !.launched = Append(@, c),
                          !.pc[c] = "running"]
    /\ UNCHANGED <<runVars, http, call>>

\* Lines 704-705: FileNotFoundError; the script path is tried.
SubprocessNotFound(c) ==
    /\ bot.pc[c] = "spawn"
    /\ bot' = SetPc(c, "spawn_script")
    /\ UNCHANGED <<runVars, http, call>>

\* Lines 706-708: another error at the first start; the error is replied
\* inside the async with block, the lock stays held. An error of the second
\* start leaves the handler, and the block with it: the lock is released.
SubprocessFails(c) ==
    /\ bot.pc[c] \in {"spawn", "spawn_script"}
    /\ bot' = IF bot.pc[c] = "spawn"
              THEN SetPc(c, "reply_error")
              ELSE [Released(bot) EXCEPT !.pc[c] = "done"]
    /\ UNCHANGED <<runVars, http, call>>

\* Line 684 and the exit of the block: the subprocess ends, communicate()
\* returns, the lock is released; lines 714-727 reply the summary.
SubprocessExits(c) ==
    /\ bot.pc[c] = "running"
    /\ bot' = [Released(bot) EXCEPT !.running = @ \ {c}, !.pc[c] = "reply_result"]
    /\ UNCHANGED <<runVars, http, call>>

\* A reply_text that ends the handler has been sent. The error reply of
\* line 707 is sent under the lock: the return of line 708 releases it.
LastReplySent(c) ==
    /\ bot.pc[c] \in {"reply_unauthorized", "reply_busy", "reply_error", "reply_result"}
    /\ bot' = IF bot.pc[c] = "reply_error"
              THEN [Released(bot) EXCEPT !.pc[c] = "done"]
              ELSE SetPc(c, "done")
    /\ UNCHANGED <<runVars, http, call>>

InitSync ==
    /\ RunAtRest
    /\ http = NoRequest
    /\ call = NoCall
    /\ bot = NoSync

NextSync ==
    \E c \in Commands :
        \/ cmd_syncdata_Unauthorized(c)
        \/ cmd_syncdata_Busy(c)
        \/ cmd_syncdata_Start(c)
        \/ LockAcquire(c)
        \/ LockWait(c)
        \/ LockWoken(c)
        \/ SubprocessStarts(c)
        \/ SubprocessNotFound(c)
        \/ SubprocessFails(c)
        \/ SubprocessExits(c)
        \/ LastReplySent(c)

SpecSync == InitSync /\ [][NextSync]_vars

\* ===================================================================
\* Properties
\* ===================================================================
\* The run has ended: by its return, or by an exception leaving run().
\* run() returned at its preflight (lines 531-533).
Aborted == result = "error: comlink preflight"

\* A run that got past the preflight has ended.
Finished == pc = "done" /\ ~Aborted

Raised == result = "raised AttributeError"

\* The run ended by returning its result after the final writes.
Returned == Finished /\ ~Raised

GuildIds == DOMAIN remote

\* The name the service gives guild g; the rows of g carry it.
NameOf(g) == remote[g].name

Cell(sheet, r, colname) ==
    LET c == Get(ColMap(sheet.headers), Lower(colname))
    IN  IF c # 0 /\ c <= Len(r) THEN r[c] ELSE ""

\* Guild g has a data row in the Guilds sheet the run found.
Listed(g) ==
    \E n \in 1..Len(pre.guilds.rows) :
        Strip(Cell(pre.guilds, pre.guilds.rows[n], "Guild Id")) = g

\* The run covers guild g: it is listed, not filtered out, and a fetch_guild
\* call of the run's attempts succeeds.
Covered(g) == Listed(g) /\ ~Skipped(g) /\ guildFails[g] < attempts

\* Every fetch_guild call for g fails.
FetchExhausted(g) == ~Skipped(g) /\ guildFails[g] >= attempts

\* The members of g's payload that carry a player id.
UsableMembers(g) ==
    {j \in 1..Len(remote[g].member) :
        remote[g].member[j].dict /\ Strip(remote[g].member[j].playerId) # ""}

ReportedIds(g) == {Strip(remote[g].member[j].playerId) : j \in UsableMembers(g)}

\* The name under which a reported member is written.
WrittenName(m) ==
    LET pid == Strip(m.playerId)
    IN  IF pid \in ExhaustedPlayers \/ RemotePlayer(pid).name = ""
        THEN Strip(m.playerName) ELSE Strip(RemotePlayer(pid).name)

ReportedNames(g) == {WrittenName(remote[g].member[j]) : j \in UsableMembers(g)}

\* No payload of guild g is malformed: members, player responses and roster
\* entries are objects.
WellFormed(g) ==
    \A j \in 1..Len(remote[g].member) :
        LET m == remote[g].member[j]
            pid == Strip(m.playerId)
        IN  /\ m.dict
            /\ (pid # "" /\ pid \notin ExhaustedPlayers) =>
                   (RemotePlayer(pid).dict /\ ~RosterRaises(RemotePlayer(pid).rosterUnit))

\* The rows of a sheet whose guild column holds name, in order, padded to
\* width cells.
RowsOf(sheet, colname, name, width) ==
    LET sel == SelectSeq(sheet.rows, LAMBDA r : Cell(sheet, r, colname) = name)
    IN  [j \in 1..Len(sel) |-> Pad(sel[j], width)]

\* The Player_Skills rows of a guild: player and non-empty cells by header.
SkillRowsOf(sheet, name) ==
    LET sel == SelectSeq(sheet.rows, LAMBDA r : Cell(sheet, r, "Player Guild") = name)
    IN  [j \in 1..Len(sel) |->
            <<Cell(sheet, sel[j], "Player Name"), PsRowDict(sheet.headers, sel[j])>>]

PlayersRowsOf(sheet, name) == RowsOf(sheet, "Guild Name", name, Len(players.headers))

UnitsRowsOf(sheet, name) == RowsOf(sheet, "Guild Name", name, Len(pu.headers))

HasPlayersRow(pid, name) ==
    \E j \in 1..Len(players.rows) :
        /\ Cell(players, players.rows[j], "Player Id") = pid
        /\ Cell(players, players.rows[j], "Guild Name") = name

HasUnitsRow(pname, name) ==
    \E j \in 1..Len(pu.rows) :
        /\ Cell(pu, pu.rows[j], "Player Name") = pname
        /\ Cell(pu, pu.rows[j], "Guild Name") = name

HasSkillsRow(pname, name) ==
    \E j \in 1..Len(ps.rows) :
        /\ Cell(ps, ps.rows[j], "Player Name") = pname
        /\ Cell(ps, ps.rows[j], "Player Guild") = name

\* C1 (partial-failure containment): in a run over [g1, g2] where every
\* fetch of g1 fails and g2's fetch succeeds (g2 reporting well-formed
\* members, the skill catalog not empty), at the end g2's reported members
\* have their rows in Players, Player_Units and Player_Skills, every row g1
\* had in the three sheets is unchanged, and one guild is counted.
C1_PartialFailureContainment ==
    (/\ Finished
     /\ FILTER_GUILD_IDS = {}
     /\ FetchExhausted("g1") /\ Covered("g2")
     /\ WellFormed("g2") /\ UsableMembers("g2") # {}
     /\ skill_id_to_header # EmptyDict)
    => /\ processed = 1
       /\ \A j \in UsableMembers("g2") :
            LET m == remote["g2"].member[j]
            IN  /\ HasPlayersRow(Strip(m.playerId), NameOf("g2"))
                /\ HasUnitsRow(WrittenName(m), NameOf("g2"))
                /\ HasSkillsRow(WrittenName(m), NameOf("g2"))
       /\ PlayersRowsOf(players, NameOf("g1")) = PlayersRowsOf(pre.players, NameOf("g1"))
       /\ UnitsRowsOf(pu, NameOf("g1")) = UnitsRowsOf(pre.pu, NameOf("g1"))
       /\ SkillRowsOf(ps, NameOf("g1")) = SkillRowsOf(pre.ps, NameOf("g1"))

\* C2 (full replacement): after a run that covers guild g, with no malformed
\* payload in the run, the rows under g's name are those of the members
\* reported now: the Players rows carry exactly the reported player ids and
\* the Player_Units rows exactly the reported names, also when no usable
\* member is reported.
C2_FullReplacement ==
    (Returned /\ \A g \in GuildIds : Covered(g) => WellFormed(g))
    => \A g \in GuildIds : Covered(g) =>
          /\ {Cell(players, r, "Player Id") :
                 r \in Range(PlayersRowsOf(players, NameOf(g)))} = ReportedIds(g)
          /\ {Cell(pu, r, "Player Name") :
                 r \in Range(UnitsRowsOf(pu, NameOf(g)))} = ReportedNames(g)
          /\ {row[1] : row \in Range(SkillRowsOf(ps, NameOf(g)))} \subseteq ReportedNames(g)

\* C3 (deletion scoping): whatever a run does for a guild it covers, the
\* Player_Units and Player_Skills rows of a guild of another name that it
\* does not cover (filtered out, or every fetch failed) are the ones the
\* sheets held when the run started: same number, same order, same cell
\* contents.
C3_DeletionScoping ==
    \A b \in GuildIds :
        (~Covered(b) /\ \E a \in GuildIds : Covered(a) /\ NameOf(a) # NameOf(b)) =>
        /\ UnitsRowsOf(pu, NameOf(b)) = UnitsRowsOf(pre.pu, NameOf(b))
        /\ SkillRowsOf(ps, NameOf(b)) = SkillRowsOf(pre.ps, NameOf(b))

\* A run has ended that covered guild g1 and not g2, g1's roster no longer
\* holds a member who had rows under it, and g2 has rows in both sheets.
C3_Witness ==
    /\ Returned
    /\ Covered("g1") /\ ~Covered("g2")
    /\ NameOf("g1") \in processed_guild_names
    /\ \E r \in Range(UnitsRowsOf(pre.pu, NameOf("g1"))) :
           Cell(pre.pu, r, "Player Name") \notin ReportedNames("g1")
    /\ Len(UnitsRowsOf(pu, NameOf("g1"))) < Len(UnitsRowsOf(pre.pu, NameOf("g1")))
    /\ UnitsRowsOf(pre.pu, NameOf("g2")) # <<>>
    /\ SkillRowsOf(pre.ps, NameOf("g2")) # <<>>

\* C4 (Players rows of other guilds): at the end of a run the Players rows
\* of a guild the run does not cover are the ones it had at the start, also
\* when a covered guild reports a player id that has a row under it.
C4_UncoveredPlayersUntouched ==
    Finished =>
        \A b \in GuildIds : ~Covered(b) =>
            PlayersRowsOf(players, NameOf(b)) = PlayersRowsOf(pre.players, NameOf(b))

\* The cells of a Guilds row except Last Update.
WithoutLastUpdate(sheet, r) ==
    [j \in {c \in 1..Len(r) : c <= Len(sheet.headers)
                              /\ Lower(sheet.headers[c]) # "last update"} |-> r[j]]

\* C5 (idempotence): a second run against the same service leaves the four
\* sheets as the first run left them, in row order and cell values, except
\* the Last Update cells.
C5_Idempotence ==
    (Finished /\ runs >= 2)
    => /\ players = pre.players
       /\ pu = pre.pu
       /\ ps = pre.ps
       /\ guilds.headers = pre.guilds.headers
       /\ Len(guilds.rows) = Len(pre.guilds.rows)
       /\ \A n \in 1..Len(guilds.rows) :
              WithoutLastUpdate(guilds, guilds.rows[n])
                  = WithoutLastUpdate(pre.guilds, pre.guilds.rows[n])

\* The headers the run itself requires or derives for each sheet; every
\* other header is a column an operator added.
EngineHeaders(table) ==
    CASE table = "guilds" ->
            {Lower(h) : h \in Range(GUILDS_REQUIRED)}
                \cup {Lower(h) : h \in UNION {Range(GUILDS_HEADER_SYNONYMS[k]) :
                                                  k \in DOMAIN GUILDS_HEADER_SYNONYMS}}
      [] table = "players" -> {Lower(h) : h \in Range(PLAYERS_REQUIRED)}
      [] table = "pu" ->
            {Lower(h) : h \in Range(PLAYER_UNITS_MIN_PREFIX)}
                \cup {Lower(catalog.characters[j].name) : j \in 1..Len(catalog.characters)}
                \cup {Lower(catalog.ships[j].name) : j \in 1..Len(catalog.ships)}
      [] OTHER ->
            {Lower(h) : h \in Range(PS_KEY_HEADERS)}
                \cup {Lower(catalog.zetas[j].pref) : j \in 1..Len(catalog.zetas)}
                \cup {Lower(catalog.omicrons[j].pref) : j \in 1..Len(catalog.omicrons)}

\* Every operator column of the sheet as it was at the start of the run is
\* at the same position now.
OperatorColumnsKept(table, before, after) ==
    \A c \in 1..Len(before.headers) :
        Lower(before.headers[c]) \notin EngineHeaders(table) =>
            c <= Len(after.headers) /\ after.headers[c] = before.headers[c]

\* C6 (column preservation): after a run that returned, in each of the four
\* sheets every column that is not one the run requires or derives is where
\* it was before the run, and in the Guilds rows (which all survive) its
\* cells keep their values.
C6_ColumnPreservation ==
    Returned =>
        /\ OperatorColumnsKept("guilds", pre.guilds, guilds)
        /\ OperatorColumnsKept("players", pre.players, players)
        /\ OperatorColumnsKept("pu", pre.pu, pu)
        /\ OperatorColumnsKept("ps", pre.ps, ps)
        /\ \A n \in 1..Len(pre.guilds.rows) : \A c \in 1..Len(pre.guilds.headers) :
               Lower(pre.guilds.headers[c]) \notin EngineHeaders("guilds") =>
                   guilds.rows[n][c] = Pad(pre.guilds.rows[n], Len(pre.guilds.headers))[c]

\* The row of guild g in the Guilds sheet (0 when it has none).
GuildRowNo(sheet, g) ==
    LET S == {n \in 1..Len(sheet.rows) : Cell(sheet, sheet.rows[n], "Guild Id") = g}
    IN  IF S = {} THEN 0 ELSE CHOOSE n \in S : \A k \in S : n <= k

\* C7 (guild fetch exhaustion): when fetch_guild raises in every attempt for
\* a guild, the guild's Guilds row is never written (it is the row the run
\* found, Last Update included), and the run goes on: when it has ended,
\* the guild listed after it, if its fetch succeeds, has been written with
\* this run's timestamp.
C7_GuildFetchExhaustion ==
    \A g \in GuildIds : FetchExhausted(g) =>
        LET n == GuildRowNo(pre.guilds, g)
        IN  n # 0 =>
              /\ guilds.rows[n] = Pad(pre.guilds.rows[n], Len(guilds.headers))
              /\ (Finished /\ runs >= 1) =>
                    \A k \in (n + 1)..Len(guilds.rows) :
                        Covered(Cell(guilds, guilds.rows[k], "Guild Id")) =>
                            Cell(guilds, guilds.rows[k], "Last Update") = now_ts

\* A run has ended in which the first listed guild's fetch failed in all
\* attempts and the guild after it was fetched and counted.
C7_Witness ==
    /\ Returned /\ runs >= 1
    /\ FetchExhausted("g1") /\ Covered("g2")
    /\ GuildRowNo(pre.guilds, "g1") = 1 /\ GuildRowNo(pre.guilds, "g2") = 2
    /\ Cell(pre.guilds, pre.guilds.rows[1], "Last Update") # now_ts
    /\ processed = 1

\* C8 (player fetch exhaustion): after a run that returned and replaced the
\* rows of guild g, a member of g whose fetch_player_by_id failed in all its
\* attempts has no row under g in Players, Player_Units or Player_Skills.
C8_ExhaustedMemberSkipped ==
    Returned =>
        \A g \in GuildIds :
            (Covered(g) /\ WellFormed(g) /\ NameOf(g) \in processed_guild_names) =>
                \A j \in UsableMembers(g) :
                    LET m == remote[g].member[j]
                    IN  Strip(m.playerId) \in ExhaustedPlayers =>
                          /\ ~HasPlayersRow(Strip(m.playerId), NameOf(g))
                          /\ ~HasUnitsRow(WrittenName(m), NameOf(g))
                          /\ ~HasSkillsRow(WrittenName(m), NameOf(g))

\* The members of g whose player lookup returns a response.
Answered(g) == {j \in UsableMembers(g) :
                   Strip(remote[g].member[j].playerId) \notin ExhaustedPlayers}

\* The response of member j of guild g is a JSON object with a sound roster.
SoundResponse(g, j) ==
    LET p == RemotePlayer(Strip(remote[g].member[j].playerId))
    IN  p.dict /\ ~RosterRaises(p.rosterUnit)

\* No payload can make roster_to_unit_values raise in a covered guild.
NoRosterRaises ==
    \A g \in GuildIds : Covered(g) =>
        \A j \in Answered(g) :
            LET p == RemotePlayer(Strip(remote[g].member[j].playerId))
            IN  p.dict => ~RosterRaises(p.rosterUnit)

\* C9 (member-level isolation): when the guild fetch of g succeeds and its
\* member entries are objects, a failed lookup of one member leaves the
\* others alone: each member whose lookup returned a sound response has a
\* Players and a Player_Units row under g at the end of the run, and g is
\* among the processed guilds.
C9_MemberIsolation ==
    (Finished /\ runs >= 1 /\ NoRosterRaises) =>
        \A g \in GuildIds :
            (Covered(g) /\ \A j \in 1..Len(remote[g].member) : remote[g].member[j].dict) =>
                \A j \in Answered(g) : SoundResponse(g, j) =>
                    /\ HasPlayersRow(Strip(remote[g].member[j].playerId), NameOf(g))
                    /\ HasUnitsRow(WrittenName(remote[g].member[j]), NameOf(g))
                    /\ NameOf(g) \in processed_guild_names

\* C10 (guild-level isolation): a malformed payload of one guild never ends
\* the run: the run ends only by returning, after every listed guild was
\* attempted and the final writes were made.
C10_GuildIsolation ==
    (Finished /\ runs >= 1) => (~Raised /\ i = Len(g_rows) + 1)

\* The requests a call of post_json_retry may make, in order: every variant
\* in turn within each attempt.
Schedule(h) ==
    [k \in 1..(h.attempts * h.variants) |->
        [attempt |-> ((k - 1) \div h.variants) + 1,
         variant |-> ((k - 1) % h.variants) + 1]]

\* C11 (bounded retry): a call post_json_retry(path, body, attempts = n)
\* with V body variants makes at most n * V requests, in the order of the
\* variants within each attempt; every request before the last one made has
\* failed; when the call returns it returns the response of the last request
\* made (nothing is sent after a success); when it raises after requests
\* were made, all n * V were made, all failed, and the error raised is the
\* last request's (an exception of the call, the process goes on);
\* fetch_guild and fetch_player_by_id call it with n = 8 and one body.
C11_BoundedRetry ==
    http.pc # "none" =>
        /\ Len(http.sent) <= http.attempts * http.variants
        /\ \A k \in 1..Len(http.sent) :
              /\ http.sent[k].attempt = Schedule(http)[k].attempt
              /\ http.sent[k].variant = Schedule(http)[k].variant
              /\ k < Len(http.sent) => ~http.sent[k].ok
        /\ http.pc = "loop" => \A k \in 1..Len(http.sent) : ~http.sent[k].ok
        /\ http.pc = "returned" =>
              /\ http.sent # <<>>
              /\ http.sent[Len(http.sent)].ok
              /\ http.answer = Len(http.sent)
              /\ http.error = "none"
        /\ (http.pc = "raised" /\ http.attempts > 0) =>
              /\ Len(http.sent) = http.attempts * http.variants
              /\ \A k \in 1..Len(http.sent) : ~http.sent[k].ok
              /\ http.error = "error of request " \o ToString(Len(http.sent))
              /\ http.answer = 0
        /\ http.caller \in {"fetch_guild", "fetch_player_by_id"} =>
              http.attempts = 8 /\ http.variants = 1

\* A call with several variants returned a response after requests of more
\* than one attempt had failed.
C11_Witness ==
    /\ http.pc = "returned"
    /\ http.variants > 1
    /\ Len(http.sent) > http.variants + 1

MaxOf(S) == CHOOSE x \in S : \A y \in S : y <= x

\* C12 (skill tier maximum): when a player's roster observes a skill of the
\* skill catalog with the tiers t1..tk, in any order and over any units, the
\* Player_Skills row written for the player holds max(t1..tk), as a decimal
\* string, in the skill's column; for observations 3, 7, 5 it holds "7".
C12_SkillTierMaximum ==
    (call.op = "player_skills" /\ call.id_to_header # EmptyDict /\ call.out # <<>>) =>
        LET sheet == call.out[1]
        IN  /\ Len(sheet.rows) = 1
            /\ Cell(sheet, sheet.rows[1], "Vader|Z") = ToString(MaxOf(Range(call.obs)))
            /\ Cell(sheet, sheet.rows[1], "Vader|O") = "1"

\* The observations 3, 7, 5, two of them on one unit and the third on the
\* next, were written as "7".
C12_Witness ==
    /\ call.op = "player_skills"
    /\ call.id_to_header = SkillHeaders
    /\ call.obs = <<3, 7, 5>>
    /\ call.cut = 2
    /\ call.out # <<>>
    /\ Cell(call.out[1], call.out[1].rows[1], "Vader|Z") = "7"

\* The headers of the skill catalog read by the run.
CatalogSkillHeaders == {skill_id_to_header[sid] : sid \in DOMAIN skill_id_to_header}

\* The value Player_Skills holds for (guild, player, header): "" when none.
SkillValue(sheet, gname, pname, header) ==
    LET S == {j \in 1..Len(sheet.rows) :
                 /\ Cell(sheet, sheet.rows[j], "Player Guild") = gname
                 /\ Cell(sheet, sheet.rows[j], "Player Name") = pname}
    IN  IF S = {} \/ Get(ColMap(sheet.headers), Lower(header)) = 0 THEN ""
        ELSE Cell(sheet, sheet.rows[CHOOSE j \in S : TRUE], header)

\* C13 (no downgrade): after a run that returned, for every member a covered
\* guild reports and every catalog skill for which Player_Skills held a
\* tier v for that member before the run, Player_Skills still holds a tier
\* of at least v, whatever the run observed for it (a lower tier, or
\* nothing because the member's roster came back empty).
C13_NoDowngrade ==
    Returned =>
        \A g \in GuildIds : (Covered(g) /\ WellFormed(g)) =>
            \A j \in UsableMembers(g) : \A h \in CatalogSkillHeaders :
                LET pname == WrittenName(remote[g].member[j])
                    before == SkillValue(pre.ps, NameOf(g), pname, h)
                    after == SkillValue(ps, NameOf(g), pname, h)
                IN  before # "" => (after # "" /\ _to_int(after, 0) >= _to_int(before, 0))

\* The columns with a value in the merged dataset of the run that ended:
\* in a row the sheet held for a guild the run did not process, or in a row
\* recomputed by the run.
ColumnsInUse ==
    {pre.ps.headers[c] : c \in {c2 \in 3..Len(pre.ps.headers) :
        \E j \in 1..Len(pre.ps.rows) :
            LET r == pre.ps.rows[j]
            IN  /\ Cell(pre.ps, r, "Player Guild") \notin processed_guild_names \cup {""}
                /\ Cell(pre.ps, r, "Player Name") # ""
                /\ c2 <= Len(r) /\ r[c2] # ""}}
    \cup UNION {{h \in DOMAIN skills_matrix[j].v : skills_matrix[j].v[h] # ""} :
                   j \in 1..Len(skills_matrix)}

\* C14 (skills matrix pruning): after a run that went through its guild list
\* (Guilds lists a guild, so the run merges and writes the skills matrix),
\* the Player_Skills header is the two key columns followed by exactly the
\* columns in use, each once; a column without any value is absent, and
\* every column of the sheet has a value in some row.
C14_SkillsMatrixPruning ==
    (Returned /\ runs >= 1 /\ pre.guilds.rows # <<>>) =>
        /\ Len(ps.headers) >= 2
        /\ SubSeq(ps.headers, 1, 2) = PS_KEY_HEADERS
        /\ {ps.headers[c] : c \in 3..Len(ps.headers)} = ColumnsInUse
        /\ Len(ps.headers) = 2 + Cardinality(ColumnsInUse)
        /\ \A c \in 3..Len(ps.headers) : \E j \in 1..Len(ps.rows) : ps.rows[j][c] # ""

\* A run ended after which a column the sheet had is gone, its values having
\* belonged to processed guilds only, while a column in use is kept.
C14_Witness ==
    /\ Returned /\ runs >= 1
    /\ "Notes" \in Range(pre.ps.headers)
    /\ \E j \in 1..Len(pre.ps.rows) : Cell(pre.ps, pre.ps.rows[j], "Notes") # ""
    /\ "Notes" \notin Range(ps.headers)
    /\ "Vader|Z" \in Range(ps.headers)


\* s is a prefix of t: every position of s holds the same header in t.
IsPrefix(s, t) == Len(s) <= Len(t) /\ \A j \in 1..Len(s) : t[j] = s[j]

\* A unit of the catalog has its column in the header (names compare
\* case-insensitively).
HasColumn(headers, name) ==
    \E j \in 1..Len(headers) : Lower(headers[j]) = Lower(name)

\* C15 (Units matrix growth): after every run the Player_Units header has a
\* column for each unit of the catalog of that run, every column the header
\* had before the run is still at its position, also when its unit left the
\* catalog, and over the whole sequence of runs the header only grew at its
\* end.
C15_UnitsMatrixGrowth ==
    (call.op = "unit_headers" /\ call.runs > 0) =>
        LET units == read_unit_catalog(call.cat[1])
        IN  /\ \A b \in Range(DictKeys(units)) :
                   HasColumn(call.headers, DictGet(units, b).name)
            /\ IsPrefix(call.before, call.headers)
            /\ IsPrefix(call.first, call.headers)

\* After the second run the header still has the column "Vader" at its
\* position although VADER left the catalog, and a new unit was appended.
C15_Witness ==
    /\ call.op = "unit_headers"
    /\ call.runs = 2
    /\ call.before # <<>>
    /\ Len(call.headers) > Len(call.before)
    /\ \E j \in 1..Len(call.before) :
           /\ call.before[j] = "Vader"
           /\ call.headers[j] = "Vader"
    /\ LET units == read_unit_catalog(call.cat[1])
       IN  \A b \in Range(DictKeys(units)) : Lower(DictGet(units, b).name) # "vader"


\* C16 (one column per catalog entry): every unit of the catalog has a
\* column of its own in the wide table, also when two base ids carry the
\* same display name (case-insensitively), and the label of each unit of
\* the roster is in the column of that unit.
C16_OneColumnPerEntry ==
    (call.op = "unit_row" /\ call.out # <<>>) =>
        LET units == read_unit_catalog(call.cat)
            ids == Range(DictKeys(units))
            col(b) == UnitCol(call.out[1].headers, units, DictGet(units, b).name)
            labels == roster_to_unit_values(call.roster, IsShip(units))
        IN  /\ \A b \in ids : col(b) # 0
            /\ \A b1, b2 \in ids : b1 # b2 => col(b1) # col(b2)
            /\ \A b \in ids : call.out[1].row[col(b)] = DictGet(labels, b)


\* The names a call of the header functions requires: the required list, or
\* the two key columns and the names of the catalog's units.
RequiredOf(c) ==
    IF c.op = "ensure_headers" THEN Range(c.required)
    ELSE LET units == read_unit_catalog(c.cat[1])
         IN  Range(PLAYER_UNITS_MIN_PREFIX)
             \cup {DictGet(units, b).name : b \in Range(DictKeys(units))}

\* C17 (headers are never removed or reordered): after _ensure_headers and
\* after ensure_player_units_headers the header row starts with the header
\* row H the sheet had, unchanged; what follows H are required headers that
\* H did not have; and when H has every required header the call writes
\* nothing.
C17_HeadersOnlyAppended ==
    (call.op \in {"ensure_headers", "unit_headers"} /\ call.runs > 0) =>
        /\ IsPrefix(call.before, call.headers)
        /\ \A j \in (Len(call.before) + 1)..Len(call.headers) :
               /\ call.headers[j] \in RequiredOf(call)
               /\ ~HasColumn(call.before, call.headers[j])
        /\ (\A r \in RequiredOf(call) : HasColumn(call.before, r)) =>
               (~call.wrote /\ call.headers = call.before)

\* The first call found an operator column and appended required headers
\* after the existing ones; the second call found nothing missing and wrote
\* nothing.
C17_Witness ==
    /\ call.op = "ensure_headers"
    /\ call.runs = 2
    /\ "Notes" \in Range(call.first)
    /\ Len(call.before) > Len(call.first)
    /\ IsPrefix(call.first, call.before)
    /\ \A r \in Range(call.required) : HasColumn(call.before, r)
    /\ ~call.wrote
    /\ call.headers = call.before


\* The names the synonym table makes interchangeable with a header: the
\* header itself and every group of the table it belongs to.
SynonymGroup(name) ==
    {name} \cup
    UNION {{k} \cup Range(GUILDS_HEADER_SYNONYMS[k]) :
              k \in {k2 \in DOMAIN GUILDS_HEADER_SYNONYMS :
                         name = k2 \/ name \in Range(GUILDS_HEADER_SYNONYMS[k2])}}

\* C18 (synonym resolution): a run appends a required header to Guilds only
\* if the sheet had neither that header, in any letter case, nor one of its
\* synonyms; a Guilds sheet that had the column "GP" does not get the column
\* "Guild GP", so that the galactic power has one column.
C18_SynonymResolution ==
    runs > 0 =>
        \A j \in (Len(pre.guilds.headers) + 1)..Len(guilds.headers) :
            \A a \in SynonymGroup(guilds.headers[j]) :
                ~HasColumn(pre.guilds.headers, a)


\* The label of a relic tier as the specification's table gives it.
RelicLabel(t) ==
    IF t = 0 THEN "<G12"
    ELSE IF t = 1 THEN "G12"
    ELSE "R" \o ToString(t - 2)

\* C19 (relic mapping): every roster unit that the catalog lists as a ship
\* has the label "Nave" whatever its tier; every other unit with a relic
\* tier in 0..11 has the label of the table (0 <G12, 1 G12, 2 R0, ..., 11 R9).
C19_RelicMapping ==
    (call.op = "unit_values" /\ call.out # <<>>) =>
        LET is_ship == IsShip(read_unit_catalog(call.cat))
        IN  \A j \in 1..Len(call.roster) :
                LET ru == call.roster[j]
                    base == BaseOfDefinition(ru.definitionId)
                IN  IF base \in DOMAIN is_ship /\ is_ship[base]
                    THEN DictGet(call.out[1], base) = "Nave"
                    ELSE (ru.relic # <<>> /\ ru.relic[1] \in 0..11) =>
                             DictGet(call.out[1], base) = RelicLabel(ru.relic[1])

\* A ship at tier 7 got "Nave" and a character at tier 11 got "R9".
C19_Witness ==
    /\ call.op = "unit_values"
    /\ call.out # <<>>
    /\ call.roster[1].relic = <<11>>
    /\ call.roster[2].relic = <<7>>
    /\ IsShip(read_unit_catalog(call.cat)) = ("VADER" :> FALSE) @@ ("FALCON" :> TRUE)
    /\ DictGet(call.out[1], "VADER") = "R9"
    /\ DictGet(call.out[1], "FALCON") = "Nave"


\* The division number of a divisionId, "" when it has none.
DivisionNumber(d) ==
    IF d = <<25>> THEN "1"
    ELSE IF d = <<20>> THEN "2"
    ELSE IF d = <<15>> THEN "3"
    ELSE IF d = <<10>> THEN "4"
    ELSE IF d = <<5>> THEN "5"
    ELSE ""

\* C20 (league formatting): gac_league is the leagueId, a space and the
\* division number when both are there (KYBER with 5 gives "KYBER 5"), the
\* leagueId alone when the division is missing (KYBER gives "KYBER"), and
\* the empty string when the leagueId is missing (divisionId 25 alone gives
\* ""): no stray separator and no division without its league.
C20_LeagueFormatting ==
    (call.op = "player_rating" /\ call.out # <<>>) =>
        call.out[1] =
            IF call.leagueId = "" THEN ""
            ELSE IF DivisionNumber(call.divisionId) = "" THEN call.leagueId
            ELSE call.leagueId \o " " \o DivisionNumber(call.divisionId)


\* C21 (role derivation): the role of a member is the label of ROLE_MAP for
\* the memberLevel values 2, 3 and 4, and the numeric string of the value
\* for every other memberLevel, 0 and 1 included.
C21_RoleDerivation ==
    (call.op = "member_level" /\ call.out # <<>> /\ call.val # <<>>) =>
        call.out[1] = IF call.val[1] \in {2, 3, 4} THEN ROLE_MAP[call.val[1]]
                      ELSE ToString(call.val[1])


\* The members of g's payload that are objects without a player id.
NamelessMembers(g) ==
    {j \in 1..Len(remote[g].member) :
        remote[g].member[j].dict /\ Strip(remote[g].member[j].playerId) = ""}

HasPlayersRowNamed(pname, name) ==
    \E j \in 1..Len(players.rows) :
        /\ Cell(players, players.rows[j], "Player Name") = pname
        /\ Cell(players, players.rows[j], "Guild Name") = name

\* C22 (missing identity): no player lookup is ever made with an empty
\* player id; after a run that returned, a member of a covered, well-formed
\* guild that has no playerId has no row under that guild in Players,
\* Player_Units or Player_Skills, and every member of the same guild that
\* has a playerId has its Players and Player_Units rows: the guild did not
\* fail.
C22_MissingIdentity ==
    /\ \A k \in 1..Len(log) : log[k].e = "fetch_player_by_id" => log[k].id # ""
    /\ Returned =>
          \A g \in GuildIds : (Covered(g) /\ WellFormed(g)) =>
              \A j \in NamelessMembers(g) :
                  LET pname == Strip(remote[g].member[j].playerName)
                  IN  /\ ~HasPlayersRowNamed(pname, NameOf(g))
                      /\ ~HasUnitsRow(pname, NameOf(g))
                      /\ ~HasSkillsRow(pname, NameOf(g))
                      /\ \A j2 \in UsableMembers(g) :
                            LET m2 == remote[g].member[j2]
                            IN  /\ HasPlayersRow(Strip(m2.playerId), NameOf(g))
                                /\ HasUnitsRow(WrittenName(m2), NameOf(g))
                                /\ \E k \in 1..Len(log) :
                                       log[k] = Lookup("fetch_player_by_id",
                                                       Strip(m2.playerId))

\* A run returned in which guild g1 reported Ann with her playerId and Cid
\* without one: Ann was looked up and written, Cid was not.
C22_Witness ==
    /\ Returned
    /\ Covered("g1")
    /\ WellFormed("g1")
    /\ NamelessMembers("g1") # {}
    /\ \E j2 \in UsableMembers("g1") : remote["g1"].member[j2].playerId = "p1"
    /\ HasPlayersRow("p1", NameOf("g1"))
    /\ ~HasPlayersRowNamed("Cid", NameOf("g1"))
    /\ Lookup("fetch_player_by_id", "p1") \in Range(log)


\* C23 (only the preflight aborts a run): a run whose preflight fails returns
\* its error result having made no lookup and no read or write of a sheet;
\* and no run ends in another way than by that result or by its normal
\* result after the final writes: nothing aborts a run once guilds are
\* being processed.
C23_OnlyPreflightAborts ==
    /\ (pc = "done" /\ Aborted) =>
          /\ log = <<>>
          /\ [guilds |-> guilds, players |-> players, pu |-> pu, ps |-> ps] = pre
    /\ (pc = "done" /\ runs >= 1 /\ ~Aborted) => Returned


\* The grid holds exactly the header row and the rows, nothing else.
GridIs(grid, headers, rows) ==
    /\ Len(grid) = Len(rows) + 1
    /\ \A j \in 1..Len(grid) : Len(grid[j]) = Len(headers)
    /\ grid[1] = headers
    /\ \A j \in 1..Len(rows) : grid[j + 1] = Pad(rows[j], Len(headers))

\* C24 (structural validity of bulk writes): when write_table_body or
\* write_ps_matrix has returned, the sheet is its header row and exactly the
\* rows written, every row as wide as the header, no cell of the previous
\* body left; when a store call of the write failed, the sheet is in such a
\* state too: either the write as a whole or nothing of it has happened.
C24_BulkWriteValidity ==
    (call.op = "bulk_write" /\ call.status # "running") =>
        \/ GridIs(call.grid, call.headers, call.rows)
        \/ call.status = "failed" /\ call.grid = call.old


\* The Guilds row of guild g, padded to the width of the header row now.
GuildRowOf(sheet, g) ==
    IF GuildRowNo(sheet, g) = 0 THEN <<>>
    ELSE Pad(sheet.rows[GuildRowNo(sheet, g)], Len(guilds.headers))

\* C25 (guild filter): in a run with a non-empty guild-id filter every
\* fetch_guild call is for a guild of the filter, every fetch_player_by_id
\* call is for a member reported by a guild of the filter, and for every
\* guild outside the filter the Guilds row and the rows under its name in
\* Players, Player_Units and Player_Skills are those the run found.
C25_GuildFilter ==
    (FILTER_GUILD_IDS # {} /\ runs >= 1) =>
        /\ \A k \in 1..Len(log) :
              /\ log[k].e = "fetch_guild" => log[k].id \in FILTER_GUILD_IDS
              /\ log[k].e = "fetch_player_by_id" =>
                     \E g \in FILTER_GUILD_IDS \cap GuildIds : log[k].id \in ReportedIds(g)
        /\ \A b \in GuildIds \ FILTER_GUILD_IDS :
              /\ GuildRowOf(guilds, b) = GuildRowOf(pre.guilds, b)
              /\ PlayersRowsOf(players, NameOf(b)) = PlayersRowsOf(pre.players, NameOf(b))
              /\ UnitsRowsOf(pu, NameOf(b)) = UnitsRowsOf(pre.pu, NameOf(b))
              /\ SkillRowsOf(ps, NameOf(b)) = SkillRowsOf(pre.ps, NameOf(b))


\* Call k of the log is the write of the Guilds row of guild g: process_guild
\* makes it after fetch_guild(g) answered and the sheet was read.
WritesGuildRow(k, g) ==
    /\ k > 2
    /\ log[k] = StoreCall("write", "Guilds")
    /\ log[k - 2] = Lookup("fetch_guild", g)

\* Call k of the log is the lookup of a member of guild g.
LooksUpMemberOf(k, g) ==
    log[k].e = "fetch_player_by_id" /\ log[k].id \in ReportedIds(g)

\* C26 (per-guild state order): a guild goes from fetching to member
\* resolution to its writes and never back: no member of a guild is looked
\* up after a store write made for that guild, its Guilds row included, and
\* the guild is not fetched again once its members are being looked up.
C26_PerGuildOrder ==
    \A g \in GuildIds : \A k, k2 \in 1..Len(log) :
        k < k2 =>
            /\ ~(WritesGuildRow(k, g) /\ LooksUpMemberOf(k2, g))
            /\ ~(LooksUpMemberOf(k, g) /\ log[k2] = Lookup("fetch_guild", g))


\* The number of calls of the log that are the call ev.
RECURSIVE CallCount(_, _)
CallCount(calls, ev) ==
    IF calls = <<>> THEN 0
    ELSE (IF Head(calls) = ev THEN 1 ELSE 0) + CallCount(Tail(calls), ev)

\* C27 (client calls): within one run no guild is passed to fetch_guild
\* twice and no player id to fetch_player_by_id twice, whatever the calls
\* answered: a retry is made inside the client call, never by calling again.
C27_LookupOnce ==
    \A k \in 1..Len(log) :
        log[k].e \in {"fetch_guild", "fetch_player_by_id"} =>
            CallCount(log, log[k]) = 1


\* C28 (coarse-grained writes): during one run each of the tables Guilds,
\* Players, Player_Units and Player_Skills receives at most one write of
\* data rows, however many guilds are processed and however many attempts a
\* guild needs.
C28_OneWritePerTable ==
    \A t \in {"Guilds", "Players", "Player_Units", "Player_Skills"} :
        CallCount(log, StoreCall("write", t)) <= 1


\* Position pos of the Players row list holds the player id.
HoldsPlayer(pos, id) ==
    LET col == Get(ColMap(p_headers), "player id")
    IN  /\ pos \in 1..Len(final_players_rows)
        /\ col \in 1..Len(final_players_rows[pos])
        /\ Strip(final_players_rows[pos][col]) = id

\* Position pos of the Player_Units row list holds the guild and player of
\* the key "guild|name".
HoldsGuildPlayer(pos, key) ==
    LET cg == Get(ColMap(pu_headers), "guild name")
        cn == Get(ColMap(pu_headers), "player name")
    IN  /\ pos \in 1..Len(final_pu_rows)
        /\ cg \in 1..Len(final_pu_rows[pos])
        /\ cn \in 1..Len(final_pu_rows[pos])
        /\ PuKey(Strip(final_pu_rows[pos][cg]),
                 Lower(Strip(final_pu_rows[pos][cn]))) = key

\* C29 (index consistency): at every lookup of the reinsertion, each entry
\* of the Players index maps a player id to a position whose row holds that
\* player id, and each entry of the Player_Units index maps a guild and
\* lower-cased player name to a position whose row holds that guild and
\* player: no entry is the position of a deleted or shifted row.
C29_IndexConsistency ==
    pc = "reinsert" =>
        /\ \A id \in DOMAIN players_index_by_pid :
               HoldsPlayer(players_index_by_pid[id], id)
        /\ \A key \in DOMAIN current_by_guild_player :
               HoldsGuildPlayer(current_by_guild_player[key], key)

\* A reinsertion under way after a delete step that moved rows: a player
\* kept in the list is indexed at another position than the one read.
C29_Witness ==
    /\ pc = "reinsert"
    /\ k_idx > 1
    /\ \E id \in DOMAIN players_index_by_pid :
           LET before == rebuild_players_index_by_pid(
                             players_existing_rows, Get(ColMap(p_headers), "player id"))
           IN  /\ id \in DOMAIN before
               /\ before[id] # players_index_by_pid[id]
    /\ \E key \in DOMAIN current_by_guild_player :
           LET before == rebuild_pu_index_by_guild_name(
                             pu_existing_rows, Get(ColMap(pu_headers), "guild name"),
                             Get(ColMap(pu_headers), "player name"))
           IN  /\ key \in DOMAIN before
               /\ before[key] # current_by_guild_player[key]


\* The run returned from its final write step (lines 737-763): the last
\* store call is the write of the Player_Skills sheet.
FinalWriteDone ==
    /\ pc = "done"
    /\ log # <<>>
    /\ log[Len(log)].id = "Player_Skills"
    /\ log[Len(log)].e \in {"write_header", "write"}

\* C30 (termination): whatever lookups fail, a service failing at every
\* attempt included, a run terminates; no guild is attempted more than
\* `attempts` times, and when no payload is malformed the run reaches its
\* final write step and returns.
C30_Termination ==
    /\ Running ~> (pc = "done")
    /\ (Running /\ NoRosterRaises) ~> FinalWriteDone
    /\ [](try <= attempts)

\* A run returned from its final writes after it abandoned g1, whose fetch
\* failed at each of the attempts, and went on to process another guild.
C30_Witness ==
    /\ FinalWriteDone
    /\ guildFails["g1"] >= attempts
    /\ CallCount(log, Lookup("fetch_guild", "g1")) = attempts
    /\ processed >= 1


\* C31 (exponential backoff): in a call of post_json_retry the sleep made in
\* attempt k (k = 0, 1, ...) is base_sleep * 1.6^k, the same for every body
\* variant of the attempt and never shorter than an earlier one; every
\* request after the first is preceded by a sleep; and the last failed
\* request is followed by no sleep before the error is raised.
C31_Backoff ==
    http.pc # "none" =>
        /\ \A k \in 1..Len(http.slept) :
               /\ k <= Len(http.sent)
               /\ http.slept[k] = http.sent[k].attempt - 1
               /\ k > 1 => http.slept[k - 1] <= http.slept[k]
        /\ Len(http.slept) >= Len(http.sent) - 1
        /\ (http.pc = "raised" /\ http.sent # <<>>) =>
               Len(http.slept) = Len(http.sent) - 1


\* The lower-cased header names of the cells upsert_guild_row may change.
GuildRowColumns ==
    {"guild name", "members", "gp", "guild gp", "last raid id", "last raid score",
     "last update"}

\* The cell of row r of the sheet under the column the name resolves to.
GuildCell(sheet, r, name) ==
    sheet.rows[r][_resolve_col(ColMap(sheet.headers), name, GUILDS_HEADER_SYNONYMS)]

\* C32 (frame of the guild upsert): upsert_guild_row changes, in the guild's
\* row, only the cells Guild Name, Members, GP / Guild GP, Last Raid Id, Last
\* Raid Score and Last Update; the other cells of the row, the other rows and
\* the header keep their values; a new value that is None or blank leaves
\* the previous cell in place, and a numeric 0 is written.
C32_GuildRowFrame ==
    (call.op = "guild_row" /\ call.out # <<>>) =>
        LET before == call.sheet
            after == call.out[1]
            r == call.idx
            nv == call.newvals
        IN  /\ after.headers = before.headers
            /\ Len(after.rows) = Len(before.rows)
            /\ \A j \in 1..Len(before.rows) : j # r => after.rows[j] = before.rows[j]
            /\ Len(after.rows[r]) = Len(before.rows[r])
            /\ \A c \in 1..Len(before.headers) :
                   Lower(Strip(before.headers[c])) \notin GuildRowColumns =>
                       after.rows[r][c] = before.rows[r][c]
            /\ Strip(nv.guild_name) = "" =>
                   GuildCell(after, r, "Guild Name") = GuildCell(before, r, "Guild Name")
            /\ nv.last_raid_id = "" =>
                   GuildCell(after, r, "Last Raid Id") = GuildCell(before, r, "Last Raid Id")
            /\ nv.gp = <<>> => GuildCell(after, r, "GP") = GuildCell(before, r, "GP")
            /\ nv.gp = <<0>> => GuildCell(after, r, "GP") = "0"
            /\ nv.members = 0 => GuildCell(after, r, "Members") = "0"
            /\ nv.last_raid_score = 0 => GuildCell(after, r, "Last Raid Score") = "0"

\* A row with a raid id and notes was upserted with a blank name, a blank
\* raid id, no GP and 0 members.
C32_Witness ==
    /\ call.op = "guild_row"
    /\ call.out # <<>>
    /\ call.idx = 1
    /\ call.newvals.guild_name = " "
    /\ call.newvals.last_raid_id = ""
    /\ call.newvals.gp = <<>>
    /\ call.newvals.members = 0
    /\ GuildCell(call.out[1], 1, "Last Raid Id") # ""
    /\ GuildCell(call.out[1], 1, "Last Update") # GuildCell(call.sheet, 1, "Last Update")


\* A sheet that contributes: it can be read and has the columns.
UsableSheet(sheet, columns) ==
    /\ sheet.state = "ok"
    /\ \A c \in columns : CatalogCol(sheet.headers, c) # 0

\* The sheet, or an empty one in its place when it cannot contribute.
OrEmpty(sheet, columns) == IF UsableSheet(sheet, columns) THEN sheet ELSE NoSheet("ok")

\* C33 (best-effort catalogs): building a catalog never raises; a sheet that
\* is missing, unreadable or lacks its columns contributes nothing (the
\* catalog is the one built with an empty sheet in its place); no entry has
\* an empty key, an empty name or a key with an exclusion substring; and
\* every other row of a usable sheet has its key in the catalog.
C33_BestEffortCatalog ==
    /\ (call.op = "unit_catalog" /\ call.out # <<>>) =>
           LET res == call.out[1]
               cols == {"base_id", "name"}
               keys == Range(DictKeys(res.value))
           IN  /\ ~res.raised
               /\ res.value = ReadUnitCatalog(OrEmpty(call.first, cols),
                                               OrEmpty(call.second, cols)).value
               /\ \A b \in keys :
                      b # "" /\ ~_exclude_baseid(b) /\ DictGet(res.value, b).name # ""
               /\ \A sheet \in {call.first, call.second} :
                      UsableSheet(sheet, cols) =>
                          \A j \in 1..Len(sheet.rows) :
                              LET e == UnitSheetEntries(sheet)[j]
                              IN  (Strip(e.base_id) # "" /\ Strip(e.name) # ""
                                   /\ ~_exclude_baseid(Strip(e.base_id)))
                                      => Strip(e.base_id) \in keys
    /\ (call.op = "skill_catalog" /\ call.out # <<>>) =>
           LET res == call.out[1]
               cols == {"skillid"}
           IN  /\ ~res.raised
               /\ res.value = ReadSkillCatalog(OrEmpty(call.first, cols),
                                                OrEmpty(call.second, cols)).value
               /\ \A sid \in DOMAIN res.value :
                      sid # "" /\ ~_exclude_skillid(sid) /\ res.value[sid] # ""


\* already_synced_today would answer for the run's day: the Guilds row of g
\* holds a Last Update written by this run.
MarkedUpdated(g) ==
    /\ GuildRowNo(guilds, g) # 0
    /\ Cell(guilds, GuildRowOf(guilds, g), "Last Update") = now_ts
    /\ Cell(pre.guilds, GuildRowOf(pre.guilds, g), "Last Update") # now_ts

\* The run deleted the rows of g from its row lists, put the reported
\* members in their place and wrote the three sheets.
RowsReplaced(g) == FinalWriteDone /\ NameOf(g) \in processed_guild_names

\* C34 (updated means replaced): when a run has ended, every guild whose
\* Guilds row got a new Last Update in the run had its rows in Players,
\* Player_Units and Player_Skills replaced by the same run.
C34_UpdatedMeansReplaced ==
    (pc = "done" /\ runs >= 1) =>
        \A g \in GuildIds : MarkedUpdated(g) => RowsReplaced(g)


\* The player names of the rows a sheet holds under a guild name.
NamesUnder(sheet, guildcol, name) ==
    {Cell(sheet, sheet.rows[j], "Player Name") :
        j \in {n \in 1..Len(sheet.rows) : Cell(sheet, sheet.rows[n], guildcol) = name}}

\* How many rows a sheet holds under a guild name.
RowCountUnder(sheet, guildcol, name) ==
    Cardinality({n \in 1..Len(sheet.rows) : Cell(sheet, sheet.rows[n], guildcol) = name})

\* C35 (cross-table consistency): after a run that returned, for every guild
\* whose rows the run replaced, the player names with a row under the guild
\* are the same in Players, Player_Units and Player_Skills, and each of the
\* three tables holds one row under the guild per reported member.
C35_CrossTableConsistency ==
    (Returned /\ runs >= 1) =>
        \A g \in GuildIds : (Covered(g) /\ NameOf(g) \in processed_guild_names) =>
            /\ NamesUnder(players, "Guild Name", NameOf(g)) = NamesUnder(pu, "Guild Name", NameOf(g))
            /\ NamesUnder(pu, "Guild Name", NameOf(g)) = NamesUnder(ps, "Player Guild", NameOf(g))
            /\ RowCountUnder(players, "Guild Name", NameOf(g)) = Cardinality(UsableMembers(g))
            /\ RowCountUnder(pu, "Guild Name", NameOf(g)) = Cardinality(UsableMembers(g))
            /\ RowCountUnder(ps, "Player Guild", NameOf(g)) = Cardinality(UsableMembers(g))


\* C36 (no guilds listed): a run that finds no data row in Guilds returns
\* "ok: 0 guilds" and the data rows of Players, Player_Units and
\* Player_Skills are those the run found.
C36_NoGuildsNoChange ==
    (Finished /\ runs >= 1 /\ pre.guilds.rows = <<>>) =>
        /\ result = "ok: 0 guilds"
        /\ players.rows = pre.players.rows
        /\ pu.rows = pre.pu.rows
        /\ ps.rows = pre.ps.rows


\* C37 (nothing processed, nothing changed): a run over a Guilds table that
\* lists guilds, in which the rows of no guild were replaced (every guild
\* was filtered out, failed its fetch or yielded no member), leaves Players,
\* Player_Units and Player_Skills as it found them: same headers in the
\* same order, same rows in the same order, same cells.
C37_NothingProcessedNoChange ==
    (Returned /\ runs >= 1 /\ pre.guilds.rows # <<>> /\ processed_guild_names = {}) =>
        /\ players = pre.players
        /\ pu = pre.pu
        /\ ps = pre.ps


\* C38 (sync of one guild): run_sync_guilds_once(guild_id) makes a run
\* restricted to the given guild id and returns its result: it does not
\* raise, and the run covers that guild and no other.
C38_SyncOnceRestricted ==
    (call.op = "sync_once" /\ call.out # <<>>) =>
        /\ call.out[1].raised = ""
        /\ call.out[1].filter = {call.guild_id}


\* C39 (one sync_data at a time): however the /syncdata handlers interleave,
\* at most one subprocess runs at a time, and every command either starts
\* its subprocess without waiting for the lock or is rejected: no handler
\* waits for the lock, and no command that waited starts a subprocess.
C39_SingleSyncData ==
    /\ Cardinality(bot.running) <= 1
    /\ \A c \in Commands : bot.pc[c] # "waiting"
    /\ \A k \in 1..Len(bot.launched) : bot.launched[k] \notin bot.waited

====
